---- MODULE Spec2Model ----
(***************************************************************************)
(* Model of the documentation server's two-tier cache (DocumentationCache  *)
(* over node-cache and FileStorage), of the cache-key fingerprint, and of  *)
(* the retrieval tools and source adapters that use them.                  *)
(*                                                                         *)
(* Strings are sequences of one-character strings, so that the filename    *)
(* sanitiser and the lexical matching are computed character by character. *)
(* Time is the millisecond clock Date.now(); it advances in steps of       *)
(* TickMs.                                                                 *)
(***************************************************************************)
EXTENDS Integers, Sequences, FiniteSets, TLC

VARIABLES
    now,          \* Date.now(), in ms
    up,           \* TRUE while a server process (one DocumentationCache) runs
    inst,         \* number of process instances started so far
    memoryCache,  \* node-cache of the running instance: key -> [v, t]
    disk,         \* files of the cache directory: filename -> CacheEntry
    nextSweep,    \* due time of the next setInterval cleanup tick
    last,         \* observation of the most recent cache operation
    written,      \* history: key -> the last set() whose file write completed
    ops,          \* number of cache operations called so far
    fpIn,         \* the parameter objects last handed to generateCacheKey
    fpOut,        \* the keys it returned for them
    env,          \* per source: network state, base URL, scraper configured
    tlast,        \* observation of the most recent tool call
    prev,         \* observation of the tool call before it
    calls,        \* number of tool calls made so far
    scrapeCalls,  \* the direct scrape calls: pending, or settled with a result
    streams,      \* the SSE connections made so far: session id, open or closed
    activeTransports, \* the Map of index.ts: session id -> connection
    posts,        \* the POSTs to /mcp: being read, dispatched, or answered
    stopping,     \* TRUE once the SIGINT/SIGTERM handler has started
    closing,      \* the session ids the loop of the handler has visited so far
    rank,         \* entries, query, type and limit handed to the ranking, and its result
    urlCheck,     \* a URL handed to fetchHtml, and what became of it
    pace,         \* the rate limiters of the scrapers and the requests passing them
    bind,         \* the tool calls made through the stdio and the HTTP binding
    tasks         \* the asynchronous operations under way, each at one of its awaits

vars ==
    <<now, up, inst, memoryCache, disk, nextSweep, last, written, ops, fpIn, fpOut,
      env, tlast, prev, calls, scrapeCalls, streams, activeTransports, posts, stopping,
      closing, rank, urlCheck, pace, bind, tasks>>

\* the state of the HTTP front end, and the observations of the pure functions
frontVars == <<streams, activeTransports, posts, stopping, closing>>
pureVars == <<rank, urlCheck, pace, bind, tasks>>


\* the state outside the cache
nonCacheVars == <<fpIn, fpOut, env, tlast, prev, calls, scrapeCalls, frontVars, pureVars>>

\* the state outside the fingerprint observation
nonKeyVars ==
    <<now, up, inst, memoryCache, disk, nextSweep, last, written, ops,
      env, tlast, prev, calls, scrapeCalls, frontVars, pureVars>>

(***************************************************************************)
(* Bounds of the model.                                                    *)
(***************************************************************************)
MaxTicks == 3
MaxInst == 2
MaxOps == 3
MaxFields == 3

(***************************************************************************)
(* Program constants.                                                      *)
(***************************************************************************)
TickMs == 1800000
DefaultTTL == 3600
CleanupIntervalMs == 3600000
MaxKeyLength == 200
MaxFilenameLength == 255

Min(a, b) == IF a < b THEN a ELSE b

(***************************************************************************)
(* utils/cache.ts                                                          *)
(***************************************************************************)
\* isCacheExpired, with the comparison a mistaken "never expires" would make
isCacheExpiredNever(timestamp, ttl, t) == FALSE

\* isCacheExpired(timestamp, ttl): Date.now() - timestamp > ttl * 1000
isCacheExpired(timestamp, ttl, t) == t - timestamp > ttl * 1000

\* characters outside [a-z0-9_-] (case-insensitive) that occur in the model
UnsafeChars == {".", "/", ":", " "}

RECURSIVE CollapseUnderscores(_)
\* .replace(/_+/g, '_')
CollapseUnderscores(s) ==
    IF Len(s) <= 1 THEN s
    ELSE IF s[1] = "_" /\ s[2] = "_" THEN CollapseUnderscores(Tail(s))
    ELSE <<s[1]>> \o CollapseUnderscores(Tail(s))

\* sanitizeFilename(filename)
sanitizeFilename(s) ==
    LET replaced == [i \in 1..Len(s) |-> IF s[i] \in UnsafeChars THEN "_" ELSE s[i]]
        collapsed == CollapseUnderscores(replaced)
    IN  SubSeq(collapsed, 1, Min(Len(collapsed), MaxFilenameLength))


\* the property names of the model in the order of Array.prototype.sort()
\* (UTF-16 code units)
SortedNames ==
    <<"apiName", "api_name", "extra", "fromVersion", "from_version", "language", "limit",
      "query", "source", "sources", "toVersion", "to_version", "topic", "type",
      "version">>

\* the JavaScript values null and undefined, and a string value
Null == [t |-> "null"]
Undefined == [t |-> "undefined"]
Str(s) == [t |-> "string", s |-> s]

\* Object.keys(params): the property names in insertion order
ObjectKeys(params) == [i \in 1..Len(params) |-> params[i].k]

\* params[key]
Prop(params, key) ==
    IF \E i \in 1..Len(params) : params[i].k = key
    THEN params[CHOOSE i \in 1..Len(params) : params[i].k = key].v
    ELSE Undefined

\* keys.sort()
SortKeys(keys) == SelectSeq(SortedNames, LAMBDA n : \E i \in 1..Len(keys) : keys[i] = n)

RECURSIVE ReduceParams(_, _)
\* .reduce(...): the properties of keys, in order, that are neither undefined
\* nor null
ReduceParams(keys, params) ==
    IF keys = <<>> THEN <<>>
    ELSE LET v == Prop(params, Head(keys))
             rest == ReduceParams(Tail(keys), params)
         IN  IF v # Undefined /\ v # Null THEN <<[k |-> Head(keys), v |-> v]>> \o rest
             ELSE rest

\* sha256(JSON.stringify(obj)).digest('hex').substring(0, 16): a token that
\* identifies the serialised object (collisions of the digest are not modelled)
Digest(obj) == ToString(obj)

\* generateCacheKey without the sort of the property names
generateCacheKeyUnsorted(prefix, params) ==
    <<prefix, ":", Digest(ReduceParams(ObjectKeys(params), params))>>

\* generateCacheKey(prefix, params)
generateCacheKey(prefix, params) ==
    <<prefix, ":", Digest(ReduceParams(SortKeys(ObjectKeys(params)), params))>>

\* BaseScraper.getCacheKey as every adapter implements it
getCacheKey(source, params) == generateCacheKey(source, params)

(***************************************************************************)
(* cache/storage.ts : FileStorage                                          *)
(***************************************************************************)
\* s.includes('..')
IncludesDotDot(s) == \E i \in 1..(Len(s) - 1) : s[i] = "." /\ s[i + 1] = "."

\* FileStorage.getFilename(key): [ok, name]; ok = FALSE when it throws
getFilename(key) ==
    IF Len(key) = 0 THEN [ok |-> FALSE, name |-> <<>>]
    ELSE IF Len(key) > MaxKeyLength THEN [ok |-> FALSE, name |-> <<>>]
    ELSE LET sanitized == sanitizeFilename(key)
         IN  IF (Len(sanitized) > 0 /\ sanitized[1] = ".") \/ IncludesDotDot(sanitized)
             THEN [ok |-> FALSE, name |-> <<>>]
             ELSE [ok |-> TRUE, name |-> sanitized \o <<".json">>]

\* JSON.stringify followed by JSON.parse of a payload: a Date comes back as
\* its ISO string, everything else unchanged
JsonRoundTrip(data) == [data EXCEPT !.rep = IF @ = "Date" THEN "string" ELSE @]

\* FileStorage.get(key) on directory d; faults = the system calls that fail
\* with an error other than ENOENT.  threw: rejected promise; found: an entry
FileStorageGet(d, key, faults) ==
    LET fn == getFilename(key)
    IN  IF ~fn.ok THEN [threw |-> TRUE, rejected |-> TRUE, found |-> <<>>, touched |-> {}]
        ELSE IF "read" \in faults
             THEN [threw |-> TRUE, rejected |-> FALSE, found |-> <<>>, touched |-> {fn.name}]
        ELSE IF fn.name \in DOMAIN d
             THEN [threw |-> FALSE, rejected |-> FALSE, found |-> <<d[fn.name]>>,
                   touched |-> {fn.name}]
        ELSE [threw |-> FALSE, rejected |-> FALSE, found |-> <<>>, touched |-> {fn.name}]

\* the directory d with file f holding entry e
WriteFile(d, f, e) == [g \in (DOMAIN d) \cup {f} |-> IF g = f THEN e ELSE d[g]]

\* the directory d without the files in fs
Unlink(d, fs) == [g \in (DOMAIN d) \ fs |-> d[g]]

\* FileStorage.set(key, entry)
FileStorageSet(d, key, entry, faults) ==
    LET fn == getFilename(key)
    IN  IF ~fn.ok THEN [threw |-> TRUE, rejected |-> TRUE, disk |-> d, touched |-> {}]
        ELSE IF "write" \in faults
             THEN [threw |-> TRUE, rejected |-> FALSE, disk |-> d, touched |-> {fn.name}]
        ELSE [threw |-> FALSE, rejected |-> FALSE,
              disk |-> WriteFile(d, fn.name, [entry EXCEPT !.data = JsonRoundTrip(@)]),
              touched |-> {fn.name}]

\* FileStorage.delete(key): ENOENT is not an error
FileStorageDelete(d, key, faults) ==
    LET fn == getFilename(key)
    IN  IF ~fn.ok THEN [threw |-> TRUE, rejected |-> TRUE, disk |-> d, touched |-> {}]
        ELSE IF "unlink" \in faults
             THEN [threw |-> TRUE, rejected |-> FALSE, disk |-> d, touched |-> {fn.name}]
        ELSE [threw |-> FALSE, rejected |-> FALSE, disk |-> Unlink(d, {fn.name}),
              touched |-> {fn.name}]

\* FileStorage.clear(): readdir, then unlink every file, ignoring unlink errors
FileStorageClear(d, faults) ==
    IF "readdir" \in faults THEN [threw |-> TRUE, disk |-> d]
    ELSE IF "unlink" \in faults THEN [threw |-> FALSE, disk |-> d]
    ELSE [threw |-> FALSE, disk |-> Unlink(d, DOMAIN d)]

\* FileStorage.cleanup(ttl) at time t: unlink the files older than the ttl
\* it was called with; unreadable files are skipped
FileStorageCleanup(d, ttl, t, faults) ==
    IF "readdir" \in faults THEN [threw |-> TRUE, disk |-> d]
    ELSE IF "read" \in faults \/ "unlink" \in faults THEN [threw |-> FALSE, disk |-> d]
    ELSE [threw |-> FALSE,
          disk |-> Unlink(d, {f \in DOMAIN d : t - d[f].timestamp > ttl * 1000})]

(***************************************************************************)
(* cache/index.ts : DocumentationCache over node-cache and FileStorage     *)
(***************************************************************************)
\* options.storage as createCacheOptions() sets it when CACHE_STORAGE is unset
Storage == "both"

\* this.fileStorage is non-null
HasFileStorage == Storage \in {"file", "both"}

\* the empty node-cache / the empty cache directory
Empty == [k \in {} |-> 0]

\* NodeCache.get(key) at time t: an item whose own expiry has passed is
\* dropped and reported as undefined
NodeCacheGet(mem, key, t) ==
    IF key \notin DOMAIN mem THEN [found |-> <<>>, mem |-> mem]
    ELSE IF mem[key].t # 0 /\ mem[key].t < t
         THEN [found |-> <<>>, mem |-> [k \in (DOMAIN mem) \ {key} |-> mem[k]]]
    ELSE [found |-> <<mem[key].v>>, mem |-> mem]

\* NodeCache.set of a memory tier that would store nothing
NodeCacheSetNothing(mem, key, value, ttl, t) == mem

\* NodeCache.set(key, value, ttl) at time t
NodeCacheSet(mem, key, value, ttl, t) ==
    [k \in (DOMAIN mem) \cup {key} |->
        IF k = key THEN [v |-> value, t |-> IF ttl = 0 THEN 0 ELSE t + ttl * 1000]
        ELSE mem[k]]

\* NodeCache.del(key)
NodeCacheDel(mem, key) == [k \in (DOMAIN mem) \ {key} |-> mem[k]]

\* the periodic check of node-cache (checkperiod): drop the expired items
NodeCacheCheck(mem, t) ==
    [k \in {k \in DOMAIN mem : ~(mem[k].t # 0 /\ mem[k].t < t)} |-> mem[k]]

\* the file-storage half of DocumentationCache.get, entered with memory mem1
DocCacheGetFile(mem1, d, key, t, faults) ==
    LET fr == FileStorageGet(d, key, faults)
    IN  IF fr.threw
        THEN [hit |-> FALSE, data |-> <<>>, mem |-> mem1, disk |-> d, tier |-> "miss",
              fsCalled |-> TRUE, fsThrew |-> TRUE, rejected |-> fr.rejected,
              touched |-> fr.touched]
        ELSE IF fr.found # <<>> /\ ~isCacheExpired(fr.found[1].timestamp, fr.found[1].ttl, t)
        THEN [hit |-> TRUE, data |-> <<fr.found[1].data>>,
              mem |-> NodeCacheSet(mem1, key, fr.found[1], fr.found[1].ttl, t),
              disk |-> d, tier |-> "file",
              fsCalled |-> TRUE, fsThrew |-> FALSE, rejected |-> FALSE,
              touched |-> fr.touched]
        ELSE IF fr.found # <<>>
        THEN LET dr == FileStorageDelete(d, key, faults)
             IN  [hit |-> FALSE, data |-> <<>>, mem |-> mem1, disk |-> dr.disk,
                  tier |-> "miss", fsCalled |-> TRUE, fsThrew |-> dr.threw,
                  rejected |-> dr.rejected, touched |-> fr.touched \cup dr.touched]
        ELSE [hit |-> FALSE, data |-> <<>>, mem |-> mem1, disk |-> d, tier |-> "miss",
              fsCalled |-> TRUE, fsThrew |-> FALSE, rejected |-> FALSE,
              touched |-> fr.touched]

\* DocumentationCache.get(key) at time t
DocCacheGet(mem, d, key, t, faults) ==
    LET mr == NodeCacheGet(mem, key, t)
        memHit == mr.found # <<>>
                  /\ ~isCacheExpired(mr.found[1].timestamp, mr.found[1].ttl, t)
        mem1 == IF mr.found # <<>> /\ ~memHit THEN NodeCacheDel(mr.mem, key) ELSE mr.mem
    IN  IF memHit
        THEN [hit |-> TRUE, data |-> <<mr.found[1].data>>, mem |-> mr.mem, disk |-> d,
              tier |-> "memory", fsCalled |-> FALSE, fsThrew |-> FALSE,
              rejected |-> FALSE, touched |-> {}]
        ELSE IF HasFileStorage THEN DocCacheGetFile(mem1, d, key, t, faults)
        ELSE [hit |-> FALSE, data |-> <<>>, mem |-> mem1, disk |-> d, tier |-> "miss",
              fsCalled |-> FALSE, fsThrew |-> FALSE, rejected |-> FALSE, touched |-> {}]

\* DocumentationCache.set as it would be if the file write came first and its
\* failure were passed on to the caller
DocCacheSetPropagating(mem, d, key, data, ttl, t, faults) ==
    LET actualTTL == IF ttl # 0 THEN ttl ELSE DefaultTTL
        entry == [data |-> data, timestamp |-> t, ttl |-> actualTTL]
        fr == FileStorageSet(d, key, entry, faults)
    IN  IF fr.threw
        THEN [threw |-> TRUE, mem |-> mem, disk |-> d, fsCalled |-> TRUE,
              fsThrew |-> TRUE, rejected |-> fr.rejected, touched |-> fr.touched]
        ELSE [threw |-> FALSE, mem |-> NodeCacheSet(mem, key, entry, actualTTL, t),
              disk |-> fr.disk, fsCalled |-> TRUE, fsThrew |-> FALSE,
              rejected |-> FALSE, touched |-> fr.touched]

\* DocumentationCache.set(key, data, ttl) at time t; ttl = 0 stands for an
\* omitted ttl
DocCacheSet(mem, d, key, data, ttl, t, faults) ==
    LET actualTTL == IF ttl # 0 THEN ttl ELSE DefaultTTL
        entry == [data |-> data, timestamp |-> t, ttl |-> actualTTL]
        mem1 == NodeCacheSet(mem, key, entry, actualTTL, t)
    IN  IF HasFileStorage
        THEN LET fr == FileStorageSet(d, key, entry, faults)
             IN  [threw |-> FALSE, mem |-> mem1, disk |-> fr.disk, fsCalled |-> TRUE,
                  fsThrew |-> fr.threw, rejected |-> fr.rejected, touched |-> fr.touched]
        ELSE [threw |-> FALSE, mem |-> mem1, disk |-> d, fsCalled |-> FALSE,
              fsThrew |-> FALSE, rejected |-> FALSE, touched |-> {}]

\* delete(key) that leaves the memory tier alone
DocCacheDeleteFileOnly(mem, d, key, faults) ==
    IF HasFileStorage
    THEN LET fr == FileStorageDelete(d, key, faults)
         IN  [threw |-> FALSE, mem |-> mem, disk |-> fr.disk, fsCalled |-> TRUE,
              fsThrew |-> fr.threw, rejected |-> fr.rejected, touched |-> fr.touched]
    ELSE [threw |-> FALSE, mem |-> mem, disk |-> d, fsCalled |-> FALSE,
          fsThrew |-> FALSE, rejected |-> FALSE, touched |-> {}]

\* DocumentationCache.delete(key)
DocCacheDelete(mem, d, key, faults) ==
    LET mem1 == NodeCacheDel(mem, key)
    IN  IF HasFileStorage
        THEN LET fr == FileStorageDelete(d, key, faults)
             IN  [threw |-> FALSE, mem |-> mem1, disk |-> fr.disk, fsCalled |-> TRUE,
                  fsThrew |-> fr.threw, rejected |-> fr.rejected, touched |-> fr.touched]
        ELSE [threw |-> FALSE, mem |-> mem1, disk |-> d, fsCalled |-> FALSE,
              fsThrew |-> FALSE, rejected |-> FALSE, touched |-> {}]

\* DocumentationCache.clear()
DocCacheClear(mem, d, faults) ==
    IF HasFileStorage
    THEN LET fr == FileStorageClear(d, faults)
         IN  [threw |-> FALSE, mem |-> Empty, disk |-> fr.disk, fsThrew |-> fr.threw]
    ELSE [threw |-> FALSE, mem |-> Empty, disk |-> d, fsThrew |-> FALSE]

(***************************************************************************)
(* The cache driven through its public operations, over process restarts.  *)
(***************************************************************************)
\* the keys handed to the cache: "a" and the empty key
CacheKeys == {<<"a">>, <<>>}

\* keys that name a path: "_a", "../a" and ".a"
PathKeys == {<<"_", "a">>, <<".", ".", "/", "a">>, <<".", "a">>}

\* the values callers store
Vals == {"v1"}

\* the ttl arguments of set(): omitted (0) and 7200 s
TTLs == {0, 7200}

\* the system calls an operation may find failing
GetFaults == {{}, {"read"}}
SetFaults == {{}, {"write"}}
DeleteFaults == {{}, {"unlink"}}
DirFaults == {{}, {"readdir"}}

NoOp ==
    [op |-> "none", key |-> <<>>, at |-> 0, threw |-> FALSE, hit |-> FALSE, data |-> <<>>,
     tier |-> "miss", fsCalled |-> FALSE, fsThrew |-> FALSE, rejected |-> FALSE,
     touched |-> {}, faults |-> {}]

\* the keys of w other than those stored under the file of key
OtherFiles(w, key) ==
    {k \in DOMAIN w : k # key /\ getFilename(k) # getFilename(key)}

\* a fresh process over an empty cache directory
CacheInit ==
    /\ now = 0
    /\ up = TRUE
    /\ inst = 1
    /\ memoryCache = Empty
    /\ disk = Empty
    /\ nextSweep = CleanupIntervalMs
    /\ last = NoOp
    /\ written = Empty
    /\ ops = 0

\* no tool has been called and no scrape started
ToolsIdle ==
    /\ tlast = <<>>
    /\ prev = <<>>
    /\ calls = 0
    /\ scrapeCalls = <<>>
    /\ streams = <<>>
    /\ activeTransports = <<>>
    /\ posts = <<>>
    /\ stopping = FALSE
    /\ closing = <<>>
    /\ rank = <<>>
    /\ urlCheck = <<>>
    /\ pace = <<>>
    /\ bind = <<>>
    /\ tasks = <<>>

InitCache ==
    /\ CacheInit
    /\ fpIn = <<>>
    /\ fpOut = <<>>
    /\ env = <<>>
    /\ ToolsIdle

\* the clock advances; a due cleanup timer fires first
Tick ==
    /\ now < MaxTicks * TickMs
    /\ ~(up /\ HasFileStorage /\ now >= nextSweep)
    /\ now' = now + TickMs
    /\ UNCHANGED <<up, inst, memoryCache, disk, nextSweep, last, written, ops>>
    /\ UNCHANGED nonCacheVars

\* cache.get(key)
Get(key, faults) ==
    /\ up
    /\ ops < MaxOps
    /\ ops' = ops + 1
    /\ LET r == DocCacheGet(memoryCache, disk, key, now, faults)
       IN  /\ memoryCache' = r.mem
           /\ disk' = r.disk
           /\ last' = [op |-> "get", key |-> key, at |-> now, threw |-> FALSE,
                       hit |-> r.hit, data |-> r.data, tier |-> r.tier,
                       fsCalled |-> r.fsCalled, fsThrew |-> r.fsThrew,
                       rejected |-> r.rejected, touched |-> r.touched,
                       faults |-> faults,
                       prior |-> [op |-> last.op, key |-> last.key,
                                  clean |-> ~last.fsThrew /\ last.faults = {},
                                  held |-> last.op = "delete" /\ last.held]]
    /\ UNCHANGED <<now, up, inst, nextSweep, written>>
    /\ UNCHANGED nonCacheVars

\* cache.set(key, data, ttl)
Set(key, val, ttl, faults) ==
    /\ up
    /\ ops < MaxOps
    /\ ops' = ops + 1
    /\ LET data == [v |-> val, born |-> now,
                   life |-> IF ttl # 0 THEN ttl ELSE DefaultTTL, rep |-> "Date"]
           r == DocCacheSet(memoryCache, disk, key, data, ttl, now, faults)
           rec == [data |-> data, t0 |-> now,
                   ttl |-> IF ttl # 0 THEN ttl ELSE DefaultTTL,
                   by |-> inst, stopped |-> FALSE]
       IN  /\ memoryCache' = r.mem
           /\ disk' = r.disk
           /\ last' = [op |-> "set", key |-> key, at |-> now, threw |-> r.threw,
                       hit |-> FALSE, data |-> <<data>>, tier |-> "miss",
                       fsCalled |-> r.fsCalled, fsThrew |-> r.fsThrew,
                       rejected |-> r.rejected, touched |-> r.touched,
                       faults |-> faults]
           /\ written' = IF r.fsCalled /\ ~r.fsThrew
                         THEN [k \in OtherFiles(written, key) \cup {key} |->
                                  IF k = key THEN rec ELSE written[k]]
                         ELSE [k \in (DOMAIN written) \ {key} |-> written[k]]
    /\ UNCHANGED <<now, up, inst, nextSweep>>
    /\ UNCHANGED nonCacheVars

\* cache.delete(key)
Delete(key, faults) ==
    /\ up
    /\ ops < MaxOps
    /\ ops' = ops + 1
    /\ LET r == DocCacheDelete(memoryCache, disk, key, faults)
       IN  /\ memoryCache' = r.mem
           /\ disk' = r.disk
           /\ last' = [op |-> "delete", key |-> key, at |-> now, threw |-> r.threw,
                       hit |-> FALSE, data |-> <<>>, tier |-> "miss",
                       fsCalled |-> r.fsCalled, fsThrew |-> r.fsThrew,
                       rejected |-> r.rejected, touched |-> r.touched,
                       faults |-> faults,
                       held |-> key \in DOMAIN memoryCache
                                /\ getFilename(key).ok
                                /\ getFilename(key).name \in DOMAIN disk]
    /\ written' = [k \in OtherFiles(written, key) |-> written[k]]
    /\ UNCHANGED <<now, up, inst, nextSweep>>
    /\ UNCHANGED nonCacheVars

\* cache.clear()
Clear(faults) ==
    /\ up
    /\ ops < MaxOps
    /\ ops' = ops + 1
    /\ LET r == DocCacheClear(memoryCache, disk, faults)
       IN  /\ memoryCache' = r.mem
           /\ disk' = r.disk
           /\ last' = [NoOp EXCEPT !.op = "clear", !.at = now, !.fsThrew = r.fsThrew,
                                   !.faults = faults]
    /\ written' = Empty
    /\ UNCHANGED <<now, up, inst, nextSweep>>
    /\ UNCHANGED nonCacheVars

\* the hourly setInterval callback: fileStorage.cleanup(this.defaultTTL)
Sweep(faults) ==
    /\ up
    /\ HasFileStorage
    /\ now >= nextSweep
    /\ disk' = FileStorageCleanup(disk, DefaultTTL, now, faults).disk
    /\ nextSweep' = nextSweep + CleanupIntervalMs
    /\ UNCHANGED <<now, up, inst, memoryCache, last, written, ops>>
    /\ UNCHANGED nonCacheVars

\* node-cache's own periodic expiry check
MemCheck ==
    /\ up
    /\ memoryCache' = NodeCacheCheck(memoryCache, now)
    /\ memoryCache' # memoryCache
    /\ UNCHANGED <<now, up, inst, disk, nextSweep, last, written, ops>>
    /\ UNCHANGED nonCacheVars

\* SIGINT / SIGTERM: server.stop() clears the cache, then the process exits
Stop(faults) ==
    /\ up
    /\ LET r == DocCacheClear(memoryCache, disk, faults)
       IN  disk' = r.disk
    /\ memoryCache' = Empty
    /\ up' = FALSE
    /\ nextSweep' = 0
    /\ last' = [NoOp EXCEPT !.op = "stop", !.at = now, !.faults = faults]
    /\ written' = [k \in DOMAIN written |-> [written[k] EXCEPT !.stopped = TRUE]]
    /\ UNCHANGED <<now, inst, ops>>
    /\ UNCHANGED nonCacheVars

\* the process ends without running its shutdown handler
Kill ==
    /\ up
    /\ up' = FALSE
    /\ memoryCache' = Empty
    /\ nextSweep' = 0
    /\ last' = [NoOp EXCEPT !.op = "kill", !.at = now]
    /\ UNCHANGED <<now, inst, disk, written, ops>>
    /\ UNCHANGED nonCacheVars

\* a new process: new DocumentationCache(options) over the same directory
Start ==
    /\ ~up
    /\ inst < MaxInst
    /\ up' = TRUE
    /\ inst' = inst + 1
    /\ memoryCache' = Empty
    /\ nextSweep' = now + CleanupIntervalMs
    /\ last' = [NoOp EXCEPT !.op = "start", !.at = now]
    /\ UNCHANGED <<now, disk, written, ops>>
    /\ UNCHANGED nonCacheVars

NextCache ==
    \/ Tick
    \/ \E key \in CacheKeys, faults \in GetFaults : Get(key, faults)
    \/ \E key \in CacheKeys, val \in Vals, ttl \in TTLs, faults \in SetFaults :
          Set(key, val, ttl, faults)
    \/ \E key \in CacheKeys, faults \in DeleteFaults : Delete(key, faults)
    \/ \E faults \in DirFaults : Clear(faults)
    \/ \E faults \in DirFaults : Sweep(faults)
    \/ MemCheck
    \/ \E faults \in DirFaults : Stop(faults)
    \/ Kill
    \/ Start

SpecCache == InitCache /\ [][NextCache]_vars

\* the cache of one process, called with keys that name paths
NextPath ==
    \/ \E key \in PathKeys, faults \in GetFaults : Get(key, faults)
    \/ \E key \in PathKeys, val \in Vals, ttl \in TTLs, faults \in SetFaults :
          Set(key, val, ttl, faults)
    \/ \E key \in PathKeys, faults \in DeleteFaults : Delete(key, faults)
    \/ \E faults \in DirFaults : Clear(faults)
    \/ Tick

SpecPath == InitCache /\ [][NextPath]_vars

(***************************************************************************)
(* Properties of the cache.                                                *)
(***************************************************************************)
\* C1: get(key) never returns a value whose age exceeds the ttl it was stored
\* with, also when the value was served by a memory tier that a durable-tier
\* hit had repopulated.
NoExpiredHit ==
    (last.op = "get" /\ last.hit)
        => ~(last.at - last.data[1].born > last.data[1].life * 1000)

\* a memory hit, some time after the set, on an entry that came back from
\* the durable tier
RepopulatedHit ==
    /\ last.op = "get"
    /\ last.hit
    /\ last.tier = "memory"
    /\ last.data[1].rep = "string"
    /\ last.at > last.data[1].born

\* C2: a value set by one instance is returned by get on a later instance
\* over the same directory at any time before its ttl has elapsed, and is a
\* miss at any time after (no explicit delete, clear or shutdown between).
TieringDurability ==
    (/\ last.op = "get"
     /\ last.faults = {}
     /\ last.key \in DOMAIN written
     /\ written[last.key].by # inst
     /\ ~written[last.key].stopped)
        => LET w == written[last.key]
           IN  /\ (last.at - w.t0 < w.ttl * 1000)
                      => (last.hit /\ last.data[1].v = w.data.v
                                   /\ last.data[1].born = w.data.born)
               /\ (last.at - w.t0 > w.ttl * 1000) => ~last.hit

\* C3: an unexpired entry written to the durable tier is retrievable by the
\* next process instance, however the previous instance stopped.
DurableSurvivesRestart ==
    (/\ last.op = "get"
     /\ last.faults = {}
     /\ last.key \in DOMAIN written
     /\ written[last.key].by # inst
     /\ last.at - written[last.key].t0 < written[last.key].ttl * 1000)
        => (last.hit /\ last.data[1].v = written[last.key].data.v)

\* key.startsWith('.') or key.includes('../')
UnsafeKey(key) ==
    \/ (Len(key) > 0 /\ key[1] = ".")
    \/ \E i \in 1..(Len(key) - 2) : key[i] = "." /\ key[i + 1] = "." /\ key[i + 2] = "/"

\* C4: a durable-tier get, set or delete of a key that contains "../" or
\* starts with "." is rejected with an error and touches no file.
PathSafety ==
    (last.op \in {"get", "set", "delete"} /\ last.fsCalled /\ UnsafeKey(last.key))
        => (last.rejected /\ last.touched = {})

\* C5: set completes without error whatever the durable write does, and a get
\* that follows it at once returns the value.
SetNeverFails ==
    (up /\ last.op = "set" /\ last.at = now)
        => /\ ~last.threw
           /\ \A faults \in GetFaults :
                 LET r == DocCacheGet(memoryCache, disk, last.key, now, faults)
                 IN  r.hit /\ r.data = last.data

\* a set whose durable write was rejected by the filename guard
SetWithRejectedKey == up /\ last.op = "set" /\ last.at = now /\ last.rejected

(***************************************************************************)
(* The fingerprint applied to pairs of parameter objects.                  *)
(***************************************************************************)
\* the property names and values of the parameter objects
KeyNames == {"apiName", "version", "extra"}
KeyVals == {Null, Undefined, Str(<<"x">>)}

\* the prefixes of the tools and the source ids of the adapters
Sources == {"electron", "react", "node", "github"}
ToolPrefixes == {"search", "api_ref", "examples", "migration"}

\* the objects with at most MaxFields properties, in every insertion order
ParamObjects ==
    {p \in UNION {[1..n -> [k : KeyNames, v : KeyVals]] : n \in 0..Min(MaxFields, 3)} :
        \A i, j \in 1..Len(p) : i # j => p[i].k # p[j].k}

\* generateCacheKey / getCacheKey applied to two objects
InitKey ==
    /\ CacheInit
    /\ fpIn \in ParamObjects \X ParamObjects
    /\ fpOut = <<>>
    /\ env = <<>>
    /\ ToolsIdle

\* generateCacheKey / getCacheKey applied to the two objects
Fingerprint(prefix) ==
    /\ fpOut = <<>>
    /\ fpOut' = IF prefix \in Sources
                THEN <<getCacheKey(prefix, fpIn[1]), getCacheKey(prefix, fpIn[2])>>
                ELSE <<generateCacheKey(prefix, fpIn[1]), generateCacheKey(prefix, fpIn[2])>>
    /\ UNCHANGED <<fpIn, nonKeyVars>>

NextKey == \E prefix \in {"api_ref", "electron"} : Fingerprint(prefix)

SpecKey == InitKey /\ [][NextKey]_vars

\* the properties of p that are neither null nor undefined
Defined(p) == {p[i] : i \in {j \in 1..Len(p) : p[j].v # Null /\ p[j].v # Undefined}}

\* C6: two parameter objects that differ only in the order of their keys or in
\* fields that are null or undefined get the same cache key, from
\* generateCacheKey and from an adapter's getCacheKey.
FingerprintStable ==
    (fpOut # <<>> /\ Defined(fpIn[1]) = Defined(fpIn[2])) => fpOut[1] = fpOut[2]

\* two objects with the same two defined fields in opposite orders, one of
\* them with an extra null or undefined field
ReorderedWithNull ==
    /\ fpOut # <<>>
    /\ Defined(fpIn[1]) = Defined(fpIn[2])
    /\ Cardinality(Defined(fpIn[1])) = 2
    /\ Len(fpIn[1]) = 3
    /\ Len(fpIn[2]) = 2
    /\ \E i, j \in 1..3 : i < j /\ fpIn[1][i] = fpIn[2][2] /\ fpIn[1][j] = fpIn[2][1]

(***************************************************************************)
(* Strings and JavaScript values of the retrieval pipeline.                *)
(***************************************************************************)
\* a number, an array and an object with its properties in insertion order
NumOf(n) == [t |-> "number", n |-> n]
Arr(a) == [t |-> "array", a |-> a]
Obj(p) == [t |-> "object", p |-> p]

IsString(v) == v.t = "string"

\* the truthiness of a value
Truthy(v) ==
    \/ (v.t = "number" /\ v.n # 0)
    \/ v.t = "array"
    \/ v.t = "object"
    \/ (v.t = "string" /\ v.s # <<>>)

\* `${v}` for the values of the model
Interpolate(v) == IF v.t = "string" THEN v.s ELSE IF v.t = "number" THEN <<"4", "2">> ELSE <<>>

\* the lower-case letter of each upper-case letter
LowerOf ==
    LET upper == <<"A", "B", "C", "D", "E", "F", "G", "H", "I", "J", "K", "L", "M",
                 "N", "O", "P", "Q", "R", "S", "T", "U", "V", "W", "X", "Y", "Z">>
        lower == <<"a", "b", "c", "d", "e", "f", "g", "h", "i", "j", "k", "l", "m",
                 "n", "o", "p", "q", "r", "s", "t", "u", "v", "w", "x", "y", "z">>
    IN  [c \in {upper[i] : i \in 1..26} |-> lower[CHOOSE i \in 1..26 : upper[i] = c]]

\* s.toLowerCase()
ToLower(s) == [i \in 1..Len(s) |-> IF s[i] \in DOMAIN LowerOf THEN LowerOf[s[i]] ELSE s[i]]

\* s.startsWith(t)
StartsWith(s, t) == Len(t) <= Len(s) /\ SubSeq(s, 1, Len(t)) = t

\* s.includes(t)
Includes(s, t) == \E i \in 0..(Len(s) - Len(t)) : SubSeq(s, i + 1, i + Len(t)) = t

RECURSIVE SplitWs(_, _)
\* s.split(/\s+/), cur being the piece collected so far
SplitWs(s, cur) ==
    IF s = <<>> THEN <<cur>>
    ELSE IF Head(s) = " "
         THEN IF Len(s) > 1 /\ s[2] = " " THEN SplitWs(Tail(s), cur)
              ELSE <<cur>> \o SplitWs(Tail(s), <<>>)
    ELSE SplitWs(Tail(s), Append(cur, Head(s)))

(***************************************************************************)
(* scrapers/base.ts : BaseScraper                                          *)
(***************************************************************************)
\* the documentation sites: the configured base URL of each source
PublicBase(source) ==
    [abs |-> TRUE, protocol |-> "https:",
     host |-> CASE source = "electron" -> <<"e", ".", "o", "r", "g">>
                [] source = "react" -> <<"r", ".", "d", "e", "v">>
                [] source = "node" -> <<"n", ".", "o", "r", "g">>
                [] source = "github" -> <<"g", ".", "c", "o", "m">>,
     path |-> [kind |-> "root", ver |-> <<>>, name |-> <<>>]]

\* a base URL on the local machine
LocalBase == [PublicBase("electron") EXCEPT !.host = <<"l", "o", "c", "a", "l", "h", "o", "s", "t">>]

\* a path relative to the base URL
Rel(kind, ver, name) ==
    [abs |-> FALSE, protocol |-> "", host |-> <<>>,
     path |-> [kind |-> kind, ver |-> ver, name |-> name]]

\* an absolute URL of the GitHub REST API
GitHubApi(kind, name) ==
    [abs |-> TRUE, protocol |-> "https:", host |-> <<"a", "p", "i", ".", "g", ".", "c", "o", "m">>,
     path |-> [kind |-> kind, ver |-> <<>>, name |-> name]]

\* new URL(url, baseUrl)
ResolveUrl(url, base) ==
    IF url.abs THEN url ELSE [url EXCEPT !.abs = TRUE, !.protocol = base.protocol, !.host = base.host]

\* hostname.match(/^172\.(1[6-9]|2[0-9]|3[0-1])\./)
Is172Private(h) ==
    /\ Len(h) >= 7
    /\ SubSeq(h, 1, 4) = <<"1", "7", "2", ".">>
    /\ h[7] = "."
    /\ \/ (h[5] = "1" /\ h[6] \in {"6", "7", "8", "9"})
       \/ (h[5] = "2" /\ h[6] \in {"0", "1", "2", "3", "4", "5", "6", "7", "8", "9"})
       \/ (h[5] = "3" /\ h[6] \in {"0", "1"})

\* BaseScraper.validateUrl(url): TRUE when it returns, FALSE when it throws
validateUrl(url, base) ==
    LET parsedUrl == ResolveUrl(url, base)
        hostname == ToLower(parsedUrl.host)
    IN  /\ parsedUrl.protocol \in {"http:", "https:"}
        /\ ~(\/ hostname = <<"l", "o", "c", "a", "l", "h", "o", "s", "t">>
             \/ hostname = <<"1", "2", "7", ".", "0", ".", "0", ".", "1">>
             \/ StartsWith(hostname, <<"1", "9", "2", ".", "1", "6", "8", ".">>)
             \/ StartsWith(hostname, <<"1", "0", ".">>)
             \/ Is172Private(hostname))
        /\ ~(\/ hostname = <<"0", ".", "0", ".", "0", ".", "0">>
             \/ hostname = <<":", ":", "1">>
             \/ hostname = <<"[", ":", ":", "]">>)

(***************************************************************************)
(* The documentation sites as the scrapers see them.  A page is given by   *)
(* what the parser extracts from it: its sections and code examples, the   *)
(* links of an index page, the guides of a breaking-changes page.          *)
(***************************************************************************)
\* BaseScraper.createEntry; rep is the representation of lastUpdated
createEntry(title, content, type, source) ==
    [title |-> title, content |-> content, type |-> type, source |-> source, rep |-> "Date"]

NotFound == [status |-> 404, sections |-> <<>>, links |-> <<>>, guides |-> <<>>]

\* a page with sections and examples
Page(sections) == [status |-> 200, sections |-> sections, links |-> <<>>, guides |-> <<>>]

\* a section or a code example found on a page
Section(title, content, type) == [title |-> title, content |-> content, type |-> type]

\* the pages of electronjs.org
ElectronSite(path) ==
    IF path.kind = "api" /\ path.ver = <<"l", "a", "t", "e", "s", "t">> /\ path.name = <<"a", "p", "p">>
    THEN Page(<<Section(<<"a", "p", "p">>, <<"t", "h", "e", " ", "a", "p", "p">>, "api"),
                Section(<<"A", "p", "p", " ", "m", "e", "n", "u">>, <<"a", "p", "p", ".", "o", "n", "(", ")">>, "example")>>)
    ELSE IF path.kind = "api" /\ path.ver = <<"l", "a", "t", "e", "s", "t">> /\ path.name = <<"m", "e", "n", "u">>
    THEN Page(<<Section(<<"M", "e", "n", "u">>, <<"a", "p", "p", " ", "m", "e", "n", "u">>, "api")>>)
    ELSE IF path.kind = "api" /\ path.ver = <<"l", "a", "t", "e", "s", "t">> /\ path.name = <<"w", "e", "b", "-", "c", "o", "n", "t", "e", "n", "t", "s">>
    THEN Page(<<Section(<<"w", "e", "b", "C", "o", "n", "t", "e", "n", "t", "s">>, <<"w", "e", "b", " ", "p", "a", "g", "e">>, "api")>>)
    ELSE IF path.kind = "breaking-changes"
    THEN [Page(<<>>) EXCEPT !.guides = <<[fromVersion |-> <<"1">>, toVersion |-> <<"2">>, changes |-> <<"a", "p", "p">>]>>]
    ELSE NotFound

\* the pages of react.dev
ReactSite(path) ==
    IF path.kind = "reference-index"
    THEN [Page(<<>>) EXCEPT !.links = <<[title |-> <<"A", "p", "p">>, href |-> "/reference/"],
                     [title |-> <<"B", "l", "o", "g">>, href |-> "/blog/"]>>]
    ELSE IF path.kind = "reference" /\ path.name = <<"a", "p", "p">>
    THEN Page(<<Section(<<"W", "r", "a", "p">>, <<"a", "n", " ", "a", "p", "p">>, "api")>>)
    ELSE IF path.kind = "learn" /\ path.name = <<"a", "p", "p">>
    THEN Page(<<Section(<<"A", "p", "p">>, <<"a", "n", " ", "a", "p", "p">>, "api"), Section(<<"M", "a", "p">>, <<"m", "a", "p", "(", ")">>, "example")>>)
    ELSE IF path.kind = "blog"
    THEN Page(<<Section(<<"U", "p", "g", "r", "a", "d", "e">>, <<"a", "p", "p">>, "api")>>)
    ELSE NotFound

\* the pages of nodejs.org
NodeSite(path) ==
    IF path.kind = "api-index"
    THEN [Page(<<>>) EXCEPT !.links =
              <<[title |-> <<"a", "p", "p", " ", "a">>, href |-> "a.html"],
                [title |-> <<"A", "b", "o", "u", "t">>, href |-> "/about"]>>
              \o [i \in 1..10 |->
                    [title |-> <<"a", "p", "p", " ", <<"b", "c", "d", "e", "f", "g", "h", "i", "j", "k">>[i]>>,
                     href |-> "a.html"]]]
    ELSE IF path.kind = "api-html" /\ path.ver = <<"a", "p", "i">> /\ path.name = <<"a", "p", "p">>
    THEN Page(<<Section(<<"a", "p", "p">>, <<"a", "p", "p", " ", "a", "p", "p">>, "api"), Section(<<"M", "a", "p">>, <<"m", "a", "p", "(", ")">>, "example")>>)
    ELSE IF path.kind = "api-plain" /\ path.ver = <<"a", "p", "i">> /\ path.name = <<"w", "r", "a", "p">>
    THEN Page(<<Section(<<"w", "r", "a", "p">>, <<"w", "r", "a", "p">>, "api")>>)
    ELSE NotFound

\* the pages of docs.github.com
GitHubSite(path) ==
    IF path.kind = "rest-index"
    THEN [Page(<<>>) EXCEPT !.links = <<[title |-> <<"A", "p", "p", "s">>, href |-> "/rest/apps"]>>]
    ELSE IF path.kind = "rest-reference" /\ path.name = <<"a", "p", "p">>
    THEN Page(<<Section(<<"A", "p", "p", "s">>, <<"a", "p", "p">>, "api")>>)
    ELSE NotFound

\* the answers of api.github.com, as the entries the scraper builds from them
GitHubApiSite(path) ==
    IF path.kind = "repo-contents" /\ path.name = <<"a", "/", "b">>
    THEN Page(<<Section(<<"a", "p", "p", ".", "m", "d">>, <<"a", "p", "p">>, "guide")>>)
    ELSE IF path.kind = "search-code" /\ path.name = <<"a", "p", "p">>
    THEN Page(<<Section(<<"a", "p", "p", ".", "j", "s">>, <<"R", "e", "p", "o", "s", "i", "t", "o", "r", "y", ":", " ", "a">>, "example")>>)
    ELSE NotFound

\* what the host of a URL serves at its path
Site(url) ==
    IF url.host = <<"e", ".", "o", "r", "g">> THEN ElectronSite(url.path)
    ELSE IF url.host = <<"r", ".", "d", "e", "v">> THEN ReactSite(url.path)
    ELSE IF url.host = <<"n", ".", "o", "r", "g">> THEN NodeSite(url.path)
    ELSE IF url.host = <<"g", ".", "c", "o", "m">> THEN GitHubSite(url.path)
    ELSE IF url.host = <<"a", "p", "i", ".", "g", ".", "c", "o", "m">> THEN GitHubApiSite(url.path)
    ELSE NotFound

\* const x = ...: the value is computed once and named in what follows
With(x, F(_)) == F(x)

\* fetchHtml, as it would be without the call of validateUrl
fetchHtmlUnguarded(url, net, base) ==
    With(ResolveUrl(url, base), LAMBDA target :
    With(Site(target), LAMBDA page :
        IF net = "down" \/ page.status # 200
        THEN [ok |-> FALSE, err |-> "Failed to fetch", page |-> NotFound,
              fetched |-> <<target>>]
        ELSE [ok |-> TRUE, err |-> "", page |-> page, fetched |-> <<target>>]))

\* BaseScraper.fetchHtml / fetchJson of the scraper of a source, net being the
\* network state and base its configured base URL
fetchHtml(url, net, base) ==
    IF ~validateUrl(url, base)
    THEN [ok |-> FALSE, err |-> "Invalid or unsafe URL", page |-> NotFound, fetched |-> <<>>]
    ELSE With(ResolveUrl(url, base), LAMBDA target :
         With(Site(target), LAMBDA page :
             IF net = "down" \/ page.status # 200
             THEN [ok |-> FALSE, err |-> "Failed to fetch", page |-> NotFound,
                   fetched |-> <<target>>]
             ELSE [ok |-> TRUE, err |-> "", page |-> page, fetched |-> <<target>>]))

\* this.parse(html, url): the sections and examples of a page as entries
parse(source, page, net) ==
    IF net = "garbled" THEN [ok |-> FALSE, err |-> "parse error", entries |-> <<>>]
    ELSE [ok |-> TRUE, err |-> "",
          entries |-> [i \in 1..Len(page.sections) |->
                         createEntry(page.sections[i].title, page.sections[i].content,
                                     page.sections[i].type, source)]]

\* net is "up" when every request is answered, "down" when every request fails
\* (timeout, refused connection, DNS failure, HTTP error status), "garbled"
\* when the answers have a body the parser throws on.
\* fetchHtml(url) followed by parse of what came back
fetchAndParse(source, url, net, base) ==
    With(fetchHtml(url, net, base), LAMBDA f :
        IF ~f.ok THEN [ok |-> FALSE, err |-> f.err, entries |-> <<>>, fetched |-> f.fetched]
        ELSE With(parse(source, f.page, net), LAMBDA p :
                 [ok |-> p.ok, err |-> p.err, entries |-> p.entries, fetched |-> f.fetched]))

\* scrapeDocumentationIndex of the React, Node.js and GitHub scrapers: fetch the
\* index page and make one entry per link the selector and the test accept
scrapeIndexPage(source, url, prefix, accepted, net, base) ==
    With(fetchHtml(url, net, base), LAMBDA f :
        IF ~f.ok THEN [threw |-> TRUE, err |-> f.err, entries |-> <<>>, fetched |-> f.fetched]
        ELSE IF net = "garbled"
        THEN [threw |-> TRUE, err |-> "parse error", entries |-> <<>>, fetched |-> f.fetched]
        ELSE With(SelectSeq(f.page.links, LAMBDA l : l.href \in accepted), LAMBDA links :
                 [threw |-> FALSE, err |-> "",
                  entries |-> [i \in 1..Len(links) |->
                                 createEntry(links[i].title, prefix \o links[i].title, "api",
                                             source)],
                  fetched |-> f.fetched]))

(***************************************************************************)
(* scrapers/electron.ts : ElectronScraper                                  *)
(***************************************************************************)
RECURSIVE Kebab(_)
\* s.replace(/([A-Z])/g, '-$1')
Kebab(s) ==
    IF s = <<>> THEN <<>>
    ELSE IF Head(s) \in DOMAIN LowerOf THEN <<"-", Head(s)>> \o Kebab(Tail(s))
    ELSE <<Head(s)>> \o Kebab(Tail(s))

\* the outcome of a private method that returned entries
Returned(entries, fetched) ==
    [threw |-> FALSE, err |-> "", entries |-> entries, fetched |-> fetched]

\* the outcome of a private method that threw
Threw(err, fetched) == [threw |-> TRUE, err |-> err, entries |-> <<>>, fetched |-> fetched]

RECURSIVE ElectronTryNames(_, _, _, _)
\* the loop of scrapeApi: the first name whose page is fetched and parsed wins,
\* a failure moves on to the next name, and no name left returns []
ElectronTryNames(names, versionPath, net, base) ==
    IF names = <<>> THEN Returned(<<>>, <<>>)
    ELSE With(fetchAndParse("electron", Rel("api", versionPath, Head(names)), net, base),
              LAMBDA r :
                 IF r.ok THEN Returned(r.entries, r.fetched)
                 ELSE With(ElectronTryNames(Tail(names), versionPath, net, base),
                           LAMBDA rest : Returned(rest.entries, r.fetched \o rest.fetched)))

\* ElectronScraper.scrapeApi(apiName, version)
ElectronScrapeApi(apiName, version, net, base) ==
    IF ~IsString(apiName) THEN Threw("TypeError", <<>>)
    ELSE LET versionPath == IF Truthy(version) THEN Interpolate(version) ELSE <<"l", "a", "t", "e", "s", "t">>
             possibleNames == <<ToLower(apiName.s), ToLower(Kebab(ToLower(apiName.s))),
                                apiName.s>>
         IN  ElectronTryNames(possibleNames, versionPath, net, base)

Digits == <<"0", "1", "2", "3", "4", "5", "6", "7", "8", "9">>

DigitVal(c) == (CHOOSE i \in 1..10 : Digits[i] = c) - 1

\* not-a-number
NaN == -1

RECURSIVE ParseDigits(_, _)
ParseDigits(s, acc) ==
    IF s = <<>> \/ Head(s) \notin {Digits[i] : i \in 1..10} THEN acc
    ELSE ParseDigits(Tail(s), acc * 10 + DigitVal(Head(s)))

\* parseInt(p, 10) of a string without sign or leading blanks
ParseInt(p) == IF p = <<>> \/ Head(p) \notin {Digits[i] : i \in 1..10} THEN NaN ELSE ParseDigits(p, 0)

RECURSIVE SplitClass(_, _, _)
\* s.split(sep) for a separator that is one character of a class: '.' in
\* parseVersion, /[.-_]/ in findBestMatch
SplitClass(s, class, cur) ==
    IF s = <<>> THEN <<cur>>
    ELSE IF Head(s) \in class THEN <<cur>> \o SplitClass(Tail(s), class, <<>>)
    ELSE SplitClass(Tail(s), class, Append(cur, Head(s)))

\* ElectronScraper.parseVersion(version)
parseVersion(version) ==
    LET split == SplitClass(version, {"."}, <<>>)
        parts == [i \in 1..Len(split) |-> ParseInt(split[i])]
        OrZero(i) == IF i > Len(parts) \/ parts[i] = NaN \/ parts[i] = 0 THEN 0 ELSE parts[i]
    IN  IF parts[1] = NaN THEN NaN ELSE parts[1] * 10000 + OrZero(2) * 100 + OrZero(3)

\* ElectronScraper.isVersionInRange(version, fromVersion, toVersion)
isVersionInRange(version, fromVersion, toVersion) ==
    LET v == parseVersion(version)
        from == parseVersion(fromVersion)
        to == parseVersion(toVersion)
    IN  /\ v # NaN /\ from # NaN /\ to # NaN
        /\ v >= from
        /\ v <= to

\* ElectronScraper.scrapeMigrationGuide(fromVersion, toVersion)
ElectronScrapeMigrationGuide(fromVersion, toVersion, net, base) ==
    With(fetchHtml(Rel("breaking-changes", <<"l", "a", "t", "e", "s", "t">>, <<>>), net, base), LAMBDA f :
        IF ~f.ok THEN Threw(f.err, f.fetched)
        ELSE IF net = "garbled" THEN Threw("parse error", f.fetched)
        ELSE IF f.page.guides # <<>> /\ (~IsString(fromVersion) \/ ~IsString(toVersion))
        THEN Threw("TypeError", f.fetched)
        ELSE With(SelectSeq(f.page.guides,
                            LAMBDA g : \/ isVersionInRange(fromVersion.s, g.fromVersion, g.toVersion)
                                       \/ isVersionInRange(toVersion.s, g.fromVersion, g.toVersion)),
                  LAMBDA guides :
                     Returned([i \in 1..Len(guides) |->
                                 createEntry(<<"M", "i", "g", "r", "a", "t", "i", "o", "n", ":", " ">> \o guides[i].fromVersion \o <<" ", "t", "o", " ">>
                                               \o guides[i].toVersion,
                                             guides[i].changes, "migration", "electron")],
                              f.fetched)))

\* ElectronScraper.scrapeExamples(topic)
ElectronScrapeExamples(topic, net, base) ==
    IF ~IsString(topic) THEN Threw("TypeError", <<>>)
    ELSE With(fetchAndParse("electron", Rel("api", <<"l", "a", "t", "e", "s", "t">>, ToLower(topic.s)), net, base),
              LAMBDA r :
                 IF ~r.ok THEN Threw(r.err, r.fetched)
                 ELSE Returned(SelectSeq(r.entries, LAMBDA e : e.type = "example"), r.fetched))

RECURSIVE ElectronScrapePages(_, _, _)
\* the loops of scrapeSearchQuery and scrapeDocumentationIndex: the entries of
\* every API page that can be fetched and parsed, the others skipped
ElectronScrapePages(apis, net, base) ==
    IF apis = <<>> THEN Returned(<<>>, <<>>)
    ELSE With(fetchAndParse("electron", Rel("api", <<"l", "a", "t", "e", "s", "t">>, Head(apis)), net, base),
              LAMBDA r :
                 With(ElectronScrapePages(Tail(apis), net, base),
                      LAMBDA rest : Returned((IF r.ok THEN r.entries ELSE <<>>) \o rest.entries,
                                             r.fetched \o rest.fetched)))

\* queryToApiMap of scrapeSearchQuery, in the order of its properties
queryToApiMap ==
    <<[term |-> <<"a", "p", "p">>, apis |-> <<<<"a", "p", "p">>>>],
      [term |-> <<"w", "i", "n", "d", "o", "w">>, apis |-> <<<<"b", "r", "o", "w", "s", "e", "r", "-", "w", "i", "n", "d", "o", "w">>>>],
      [term |-> <<"b", "r", "o", "w", "s", "e", "r", "w", "i", "n", "d", "o", "w">>, apis |-> <<<<"b", "r", "o", "w", "s", "e", "r", "-", "w", "i", "n", "d", "o", "w">>>>],
      [term |-> <<"b", "r", "o", "w", "s", "e", "r">>, apis |-> <<<<"b", "r", "o", "w", "s", "e", "r", "-", "w", "i", "n", "d", "o", "w">>>>],
      [term |-> <<"w", "e", "b">>, apis |-> <<<<"w", "e", "b", "-", "c", "o", "n", "t", "e", "n", "t", "s">>>>],
      [term |-> <<"w", "e", "b", "c", "o", "n", "t", "e", "n", "t", "s">>, apis |-> <<<<"w", "e", "b", "-", "c", "o", "n", "t", "e", "n", "t", "s">>>>],
      [term |-> <<"m", "e", "n", "u">>, apis |-> <<<<"m", "e", "n", "u">>>>],
      [term |-> <<"d", "i", "a", "l", "o", "g">>, apis |-> <<<<"d", "i", "a", "l", "o", "g">>>>],
      [term |-> <<"i", "p", "c">>, apis |-> <<<<"i", "p", "c", "-", "m", "a", "i", "n">>, <<"i", "p", "c", "-", "r", "e", "n", "d", "e", "r", "e", "r">>>>],
      [term |-> <<"m", "a", "i", "n">>, apis |-> <<<<"i", "p", "c", "-", "m", "a", "i", "n">>>>],
      [term |-> <<"p", "r", "o", "c", "e", "s", "s">>, apis |-> <<<<"p", "r", "o", "c", "e", "s", "s">>>>],
      [term |-> <<"s", "h", "e", "l", "l">>, apis |-> <<<<"s", "h", "e", "l", "l">>>>],
      [term |-> <<"c", "l", "i", "p", "b", "o", "a", "r", "d">>, apis |-> <<<<"c", "l", "i", "p", "b", "o", "a", "r", "d">>>>],
      [term |-> <<"s", "c", "r", "e", "e", "n">>, apis |-> <<<<"s", "c", "r", "e", "e", "n">>>>],
      [term |-> <<"n", "o", "t", "i", "f", "i", "c", "a", "t", "i", "o", "n">>, apis |-> <<<<"n", "o", "t", "i", "f", "i", "c", "a", "t", "i", "o", "n">>>>],
      [term |-> <<"t", "r", "a", "y">>, apis |-> <<<<"t", "r", "a", "y">>>>]>>

RECURSIVE AddAll(_, _)
\* apis.forEach(api => set.add(api)): a Set keeps the order of first insertion
AddAll(set, apis) ==
    IF apis = <<>> THEN set
    ELSE AddAll(IF \E i \in 1..Len(set) : set[i] = Head(apis) THEN set
                ELSE Append(set, Head(apis)),
                Tail(apis))

RECURSIVE RelevantApis(_, _, _)
\* the APIs of the terms of map that queryLower includes
RelevantApis(map, queryLower, set) ==
    IF map = <<>> THEN set
    ELSE RelevantApis(Tail(map), queryLower,
                      IF Includes(queryLower, Head(map).term) THEN AddAll(set, Head(map).apis)
                      ELSE set)

\* ElectronScraper.scrapeSearchQuery(query)
ElectronScrapeSearchQuery(query, net, base) ==
    IF ~IsString(query) THEN Threw("TypeError", <<>>)
    ELSE LET matched == RelevantApis(queryToApiMap, ToLower(query.s), <<>>)
             relevantApis == IF matched = <<>>
                             THEN <<<<"a", "p", "p">>, <<"b", "r", "o", "w", "s", "e", "r", "-", "w", "i", "n", "d", "o", "w">>, <<"w", "e", "b", "-", "c", "o", "n", "t", "e", "n", "t", "s">>>>
                             ELSE matched
         IN  ElectronScrapePages(relevantApis, net, base)

\* ElectronScraper.scrapeDocumentationIndex()
ElectronScrapeDocumentationIndex(net, base) ==
    ElectronScrapePages(<<<<"a", "p", "p">>, <<"b", "r", "o", "w", "s", "e", "r", "-", "w", "i", "n", "d", "o", "w">>, <<"w", "e", "b", "-", "c", "o", "n", "t", "e", "n", "t", "s">>, <<"m", "e", "n", "u">>, <<"d", "i", "a", "l", "o", "g">>>>,
                        net, base)

\* the try block of ElectronScraper.scrape(params)
ElectronScrapeBody(params, net, base) ==
    IF params.t # "object" THEN Threw("TypeError", <<>>)
    ELSE LET p == params.p
         IN  IF Truthy(Prop(p, "apiName"))
             THEN ElectronScrapeApi(Prop(p, "apiName"), Prop(p, "version"), net, base)
             ELSE IF /\ Prop(p, "type") = Str(<<"m", "i", "g", "r", "a", "t", "i", "o", "n">>)
                     /\ Truthy(Prop(p, "fromVersion"))
                     /\ Truthy(Prop(p, "toVersion"))
             THEN ElectronScrapeMigrationGuide(Prop(p, "fromVersion"), Prop(p, "toVersion"),
                                               net, base)
             ELSE IF Truthy(Prop(p, "topic")) THEN ElectronScrapeExamples(Prop(p, "topic"), net, base)
             ELSE IF Truthy(Prop(p, "query"))
             THEN ElectronScrapeSearchQuery(Prop(p, "query"), net, base)
             ELSE ElectronScrapeDocumentationIndex(net, base)

(***************************************************************************)
(* scrapers/react.ts, node.ts, github.ts                                   *)
(***************************************************************************)
\* a private method that fetches one page, parses it and passes a failure on:
\* scrapeApi and scrapeExamples (keep = the entry types returned) of the React,
\* Node.js and GitHub scrapers; name is lower-cased for the URL
ScrapeOnePage(source, kind, ver, name, keep, net, base) ==
    IF ~IsString(name) THEN Threw("TypeError", <<>>)
    ELSE With(fetchAndParse(source, Rel(kind, ver, ToLower(name.s)), net, base),
              LAMBDA r :
                 IF ~r.ok THEN Threw(r.err, r.fetched)
                 ELSE Returned(SelectSeq(r.entries, LAMBDA e : e.type \in keep), r.fetched))

\* every entry type
EntryTypes == {"api", "guide", "example", "migration"}

\* ReactScraper.scrapeMigrationGuide(fromVersion, toVersion)
ReactScrapeMigrationGuide(net, base) ==
    With(fetchAndParse("react", Rel("blog", <<>>, <<>>), net, base), LAMBDA r :
        IF ~r.ok THEN Threw(r.err, r.fetched)
        ELSE Returned([i \in 1..Len(r.entries) |-> [r.entries[i] EXCEPT !.type = "migration"]],
                      r.fetched))

\* the try block of ReactScraper.scrape(params), with scrapeApi, scrapeExamples
\* and scrapeDocumentationIndex
ReactScrapeBody(params, net, base) ==
    IF params.t # "object" THEN Threw("TypeError", <<>>)
    ELSE LET p == params.p
         IN  IF Truthy(Prop(p, "apiName"))
             THEN ScrapeOnePage("react", "reference", <<>>, Prop(p, "apiName"), EntryTypes,
                                net, base)
             ELSE IF Truthy(Prop(p, "topic"))
             THEN ScrapeOnePage("react", "learn", <<>>, Prop(p, "topic"), {"example"}, net, base)
             ELSE IF Prop(p, "type") = Str(<<"m", "i", "g", "r", "a", "t", "i", "o", "n">>) THEN ReactScrapeMigrationGuide(net, base)
             ELSE scrapeIndexPage("react", Rel("reference-index", <<>>, <<>>),
                                  <<"R", "e", "a", "c", "t", " ", "A", "P", "I", " ", "R", "e", "f", "e", "r", "e", "n", "c", "e", ":", " ">>, {"/reference/"}, net, base)

\* NodeScraper.scrapeApi(apiName, version)
NodeScrapeApi(apiName, version, net, base) ==
    IF ~IsString(apiName) THEN Threw("TypeError", <<>>)
    ELSE LET versionPath == IF Truthy(version) THEN <<"d", "o", "c", "s", "/">> \o Interpolate(version)
                            ELSE <<"a", "p", "i">>
             Try(kind) == fetchAndParse("node", Rel(kind, versionPath, ToLower(apiName.s)),
                                        net, base)
         IN  With(Try("api-html"), LAMBDA r :
                 IF r.ok THEN Returned(r.entries, r.fetched)
                 ELSE With(Try("api-plain"), LAMBDA alt :
                          IF alt.ok THEN Returned(alt.entries, r.fetched \o alt.fetched)
                          ELSE Threw(alt.err, r.fetched \o alt.fetched)))

\* the try block of NodeScraper.scrape(params), with scrapeExamples and
\* scrapeDocumentationIndex
NodeScrapeBody(params, net, base) ==
    IF params.t # "object" THEN Threw("TypeError", <<>>)
    ELSE LET p == params.p
         IN  IF Truthy(Prop(p, "apiName"))
             THEN NodeScrapeApi(Prop(p, "apiName"), Prop(p, "version"), net, base)
             ELSE IF Truthy(Prop(p, "topic"))
             THEN ScrapeOnePage("node", "api-html", <<"a", "p", "i">>, Prop(p, "topic"), {"example"},
                                net, base)
             ELSE scrapeIndexPage("node", Rel("api-index", <<>>, <<>>),
                                  <<"N", "o", "d", "e", ".", "j", "s", " ", "A", "P", "I", " ", "R", "e", "f", "e", "r", "e", "n", "c", "e", ":", " ">>, {"a.html"}, net, base)

\* GitHubScraper.scrapeRepoDocumentation(repo, path) and searchExamples(topic):
\* a request to api.github.com whose failure is passed on; an answer without
\* the expected fields gives no entry from the first and a TypeError in the
\* second
GitHubApiCall(kind, name, type, net, base) ==
    With(fetchHtml(GitHubApi(kind, name), net, base), LAMBDA f :
        IF ~f.ok THEN Threw(f.err, f.fetched)
        ELSE IF net = "garbled"
        THEN IF kind = "search-code" THEN Threw("TypeError", f.fetched)
             ELSE Returned(<<>>, f.fetched)
        ELSE Returned([i \in 1..Len(f.page.sections) |->
                         createEntry(f.page.sections[i].title, f.page.sections[i].content,
                                     type, "github")],
                      f.fetched))

\* the try block of GitHubScraper.scrape(params), with scrapeApi and
\* scrapeDocumentationIndex
GitHubScrapeBody(params, net, base) ==
    IF params.t # "object" THEN Threw("TypeError", <<>>)
    ELSE LET p == params.p
         IN  IF Truthy(Prop(p, "repo")) /\ Truthy(Prop(p, "path"))
             THEN GitHubApiCall("repo-contents",
                                Interpolate(Prop(p, "repo")) \o <<"/">> \o Interpolate(Prop(p, "path")),
                                "guide", net, base)
             ELSE IF Truthy(Prop(p, "apiName"))
             THEN ScrapeOnePage("github", "rest-reference", <<>>, Prop(p, "apiName"),
                                EntryTypes, net, base)
             ELSE IF Truthy(Prop(p, "topic"))
             THEN GitHubApiCall("search-code", Interpolate(Prop(p, "topic")), "example", net, base)
             ELSE scrapeIndexPage("github", Rel("rest-index", <<>>, <<>>),
                                  <<"G", "i", "t", "H", "u", "b", " ", "A", "P", "I", " ", "R", "e", "f", "e", "r", "e", "n", "c", "e", ":", " ">>, {"/rest/apps"}, net, base)

\* the try block of the scrape method of the scraper of a source
ScrapeBody(source, params, net, base) ==
    CASE source = "electron" -> ElectronScrapeBody(params, net, base)
      [] source = "react" -> ReactScrapeBody(params, net, base)
      [] source = "node" -> NodeScrapeBody(params, net, base)
      [] source = "github" -> GitHubScrapeBody(params, net, base)

\* `Failed to scrape ${name} docs: ${errorMessage}`
ScrapeError(source, cause) ==
    [msg |-> "Failed to scrape "
               \o (CASE source = "electron" -> "Electron" [] source = "react" -> "React"
                     [] source = "node" -> "Node.js" [] source = "github" -> "GitHub")
               \o " docs",
     cause |-> cause, source |-> source]

\* scrape(params) with the catch clause missing: a failure inside rejects the
\* promise
scrapeUncaught(source, params, t, net, base) ==
    With(ScrapeBody(source, params, net, base), LAMBDA body :
        [settled |-> IF body.threw THEN "rejected" ELSE "resolved",
         entries |-> body.entries, source |-> source, scrapedAt |-> t,
         errors |-> <<>>, fetched |-> body.fetched])

\* scrape(params) of the scraper of a source, called at time t: the settled
\* promise; errors = << >> stands for errors: undefined
scrape(source, params, t, net, base) ==
    With(ScrapeBody(source, params, net, base), LAMBDA body :
        [settled |-> "resolved",
         entries |-> body.entries, source |-> source, scrapedAt |-> t,
         errors |-> IF body.threw THEN <<ScrapeError(source, body.err)>> ELSE <<>>,
         fetched |-> body.fetched])

(***************************************************************************)
(* tools/api-reference.ts : DocumentationTool                              *)
(* tools/search.ts : SearchTool                                            *)
(***************************************************************************)
\* the characters of the class [.-_] of findBestMatch: the range from '.'
\* (0x2E) to '_' (0x5F)
DotToUnderscore ==
    {".", "/", ":", ";", "<", "=", ">", "?", "@", "[", "\\", "]", "^", "_"}
        \cup {Digits[i] : i \in 1..10} \cup DOMAIN LowerOf

\* entries.find(...), given the entries that satisfy the test: the first of
\* them, << >> for undefined
First(hits) == IF hits = <<>> THEN <<>> ELSE <<Head(hits)>>

\* DocumentationTool.findBestMatch(entries, apiName); << >> stands for null
findBestMatch(entries, apiName) ==
    LET apiNameLower == ToLower(apiName)
        parts == SplitClass(apiNameLower, DotToUnderscore, <<>>)
        exactMatch == First(SelectSeq(entries, LAMBDA e : ToLower(e.title) = apiNameLower))
        containsMatch ==
            First(SelectSeq(entries, LAMBDA e : Includes(ToLower(e.title), apiNameLower)))
        partialMatch ==
            First(SelectSeq(entries, LAMBDA e : \E i \in 1..Len(parts) :
                                                   Includes(ToLower(e.title), parts[i])))
    IN  IF exactMatch # <<>> THEN exactMatch
        ELSE IF containsMatch # <<>> THEN containsMatch
        ELSE IF partialMatch # <<>> THEN partialMatch
        ELSE IF entries # <<>> THEN <<entries[1]>>
        ELSE <<>>

\* the source id a string spells, as the key of the scrapers Map
SourceId(s) ==
    CASE s = <<"e", "l", "e", "c", "t", "r", "o", "n">> -> "electron"
      [] s = <<"r", "e", "a", "c", "t">> -> "react"
      [] s = <<"n", "o", "d", "e">> -> "node"
      [] s = <<"g", "i", "t", "h", "u", "b">> -> "github"

\* the scrapers the tools were constructed with, in the order of the Map
ScraperKeys(scrapers) ==
    SelectSeq(<<"electron", "react", "node", "github">>, LAMBDA s : scrapers[s].configured)

\* the outcome of a tool call: thrown or returned (result is << >> for null),
\* the scrapes it started, the requests they sent, the errors it collected and
\* the cache it leaves
ToolOutcome(threw, result, scrapes, fetched, errors, cached, mem, d) ==
    [threw |-> threw, result |-> result, scrapes |-> scrapes, fetched |-> fetched,
     errors |-> errors, cached |-> cached, mem |-> mem, disk |-> d]

\* getApiReference without the cache.set of the entry it found
getApiReferenceNoStore(params, t, mem, d, scrapers, faults) ==
    With(generateCacheKey("api_ref", params), LAMBDA cacheKey :
    With(DocCacheGet(mem, d, cacheKey, t, faults), LAMBDA c :
    With(SourceId(Prop(params, "source").s), LAMBDA source :
        IF c.hit THEN ToolOutcome(FALSE, c.data, <<>>, <<>>, <<>>, TRUE, c.mem, c.disk)
        ELSE IF ~scrapers[source].configured
        THEN ToolOutcome(TRUE, <<>>, <<>>, <<>>, <<>>, FALSE, c.mem, c.disk)
        ELSE
    With(scrape(source, Obj(<<[k |-> "apiName", v |-> Prop(params, "apiName")],
                              [k |-> "version", v |-> Prop(params, "version")]>>),
                t, scrapers[source].net, scrapers[source].base), LAMBDA result :
    With(findBestMatch(result.entries, Prop(params, "apiName").s), LAMBDA entry :
        IF result.entries # <<>> /\ entry # <<>>
        THEN ToolOutcome(FALSE, entry, <<source>>, result.fetched, <<>>, FALSE, c.mem, c.disk)
        ELSE ToolOutcome(FALSE, <<>>, <<source>>, result.fetched, <<>>, FALSE, c.mem,
                         c.disk))))))

\* DocumentationTool.getApiReference(params) at time t
getApiReference(params, t, mem, d, scrapers, faults) ==
    With(generateCacheKey("api_ref", params), LAMBDA cacheKey :
    With(DocCacheGet(mem, d, cacheKey, t, faults), LAMBDA c :
    With(SourceId(Prop(params, "source").s), LAMBDA source :
        IF c.hit THEN ToolOutcome(FALSE, c.data, <<>>, <<>>, <<>>, TRUE, c.mem, c.disk)
        ELSE IF ~scrapers[source].configured
        THEN ToolOutcome(TRUE, <<>>, <<>>, <<>>, <<>>, FALSE, c.mem, c.disk)
        ELSE
    With(scrape(source, Obj(<<[k |-> "apiName", v |-> Prop(params, "apiName")],
                              [k |-> "version", v |-> Prop(params, "version")]>>),
                t, scrapers[source].net, scrapers[source].base), LAMBDA result :
    With(findBestMatch(result.entries, Prop(params, "apiName").s), LAMBDA entry :
        IF result.entries # <<>> /\ entry # <<>>
        THEN With(DocCacheSet(c.mem, c.disk, cacheKey, entry[1], 3600, t, faults), LAMBDA s :
                 ToolOutcome(FALSE, entry, <<source>>, result.fetched, <<>>, FALSE, s.mem,
                             s.disk))
        ELSE ToolOutcome(FALSE, <<>>, <<source>>, result.fetched, <<>>, FALSE, c.mem,
                         c.disk))))))

\* the characters of the values of the type enumeration
TypeChars ==
    [api |-> <<"a", "p", "i">>, guide |-> <<"g", "u", "i", "d", "e">>, example |-> <<"e", "x", "a", "m", "p", "l", "e">>, migration |-> <<"m", "i", "g", "r", "a", "t", "i", "o", "n">>]

RECURSIVE CountMatches(_, _)
\* (s.match(new RegExp(term, 'g')) || []).length for a term of letters: the
\* matches do not overlap, and the empty pattern matches at every position
CountMatches(s, term) ==
    IF term = <<>> THEN Len(s) + 1
    ELSE IF Len(s) < Len(term) THEN 0
    ELSE IF SubSeq(s, 1, Len(term)) = term
         THEN 1 + CountMatches(SubSeq(s, Len(term) + 1, Len(s)), term)
    ELSE CountMatches(Tail(s), term)

\* the characters new RegExp reads as syntax among those of the queries of the
\* model: the wildcard, the quantifier, and the openers of a group and a class
RegExpSyntax == {".", "+", "(", "["}

\* new RegExp(term, 'g') throws a SyntaxError, for a term of letters, digits
\* and the characters of RegExpSyntax: a group or a class is never closed, and
\* a quantifier has nothing to repeat
RegExpThrows(term) ==
    \E i \in 1..Len(term) :
        \/ term[i] \in {"(", "["}
        \/ term[i] = "+" /\ (i = 1 \/ term[i - 1] = "+")

RECURSIVE Atoms(_)
\* the pattern of a term new RegExp accepts: its characters, each with the
\* quantifier that follows it
Atoms(term) ==
    IF term = <<>> THEN <<>>
    ELSE IF Len(term) > 1 /\ term[2] = "+"
         THEN <<[c |-> term[1], plus |-> TRUE]>> \o Atoms(SubSeq(term, 3, Len(term)))
    ELSE <<[c |-> term[1], plus |-> FALSE]>> \o Atoms(Tail(term))

RECURSIVE MatchEnd(_, _, _)
\* where the match of the pattern that starts behind the first pos characters
\* of s ends, -1 when there is none: a quantifier takes as many characters as
\* the rest of the pattern allows
MatchEnd(s, atoms, pos) ==
    IF atoms = <<>> THEN pos
    ELSE IF pos >= Len(s) \/ ~(Head(atoms).c = "." \/ Head(atoms).c = s[pos + 1]) THEN -1
    ELSE IF Head(atoms).plus
         THEN With(MatchEnd(s, atoms, pos + 1), LAMBDA longer :
                  IF longer # -1 THEN longer ELSE MatchEnd(s, Tail(atoms), pos + 1))
    ELSE MatchEnd(s, Tail(atoms), pos + 1)

RECURSIVE RegExpCount(_, _, _)
\* the number of matches s.match(regexp) finds from position pos on
RegExpCount(s, atoms, pos) ==
    IF pos > Len(s) THEN 0
    ELSE With(MatchEnd(s, atoms, pos), LAMBDA end :
             IF end = -1 \/ end = pos
             THEN (IF end = pos THEN 1 ELSE 0) + RegExpCount(s, atoms, pos + 1)
             ELSE 1 + RegExpCount(s, atoms, end))

\* (s.match(new RegExp(term, 'g')) || []).length
MatchCount(s, term) ==
    IF \A i \in 1..Len(term) : term[i] \notin RegExpSyntax THEN CountMatches(s, term)
    ELSE RegExpCount(s, Atoms(term), 0)

RECURSIVE SumSeq(_)
\* the sum of a sequence of numbers
SumSeq(s) == IF s = <<>> THEN 0 ELSE Head(s) + SumSeq(Tail(s))

\* the relevance score filterAndRankEntries gives an entry
Score(entry, queryLower, queryTerms) ==
    LET titleLower == ToLower(entry.title)
        contentLower == ToLower(entry.content)
    IN  (IF titleLower = queryLower THEN 100 ELSE 0)
        + (IF Includes(titleLower, queryLower) THEN 50 ELSE 0)
        + SumSeq([i \in 1..Len(queryTerms) |->
                    MatchCount(titleLower, queryTerms[i]) * 10
                    + MatchCount(contentLower, queryTerms[i]) * 2])

RECURSIVE InsertByScore(_, _)
\* x put behind the last element of the sorted sequence whose score is not lower
InsertByScore(sorted, x) ==
    IF sorted = <<>> THEN <<x>>
    ELSE IF Head(sorted).score >= x.score THEN <<Head(sorted)>> \o InsertByScore(Tail(sorted), x)
    ELSE <<x>> \o sorted

RECURSIVE SortByScore(_, _)
\* .sort((a, b) => b.score - a.score): descending and stable
SortByScore(scored, sorted) ==
    IF scored = <<>> THEN sorted
    ELSE SortByScore(Tail(scored), InsertByScore(sorted, Head(scored)))

\* the callback of entries.filter in filterAndRankEntries
FilterKeeps(e, queryTerms, type) ==
    /\ ~(Truthy(type) /\ TypeChars[e.type] # type.s)
    /\ \A i \in 1..Len(queryTerms) :
           \/ Includes(ToLower(e.title), queryTerms[i])
           \/ Includes(ToLower(e.content), queryTerms[i])

\* filterAndRankEntries throws: an entry passes the filter, and the scoring of
\* the first one builds a regular expression from every term of the query
ScoringThrows(entries, query, type) ==
    With(SplitWs(ToLower(query), <<>>), LAMBDA queryTerms :
        /\ \E i \in 1..Len(entries) : FilterKeeps(entries[i], queryTerms, type)
        /\ \E i \in 1..Len(queryTerms) : RegExpThrows(queryTerms[i]))

\* filterAndRankEntries keeping the entries that have some term of the query
filterAndRankEntriesSomeTerm(entries, query, type) ==
    LET queryLower == ToLower(query)
        queryTerms == SplitWs(queryLower, <<>>)
        kept == SelectSeq(entries,
                    LAMBDA e : /\ ~(Truthy(type) /\ TypeChars[e.type] # type.s)
                               /\ \E i \in 1..Len(queryTerms) :
                                      \/ Includes(ToLower(e.title), queryTerms[i])
                                      \/ Includes(ToLower(e.content), queryTerms[i]))
        scored == [i \in 1..Len(kept) |->
                     [entry |-> kept[i], score |-> Score(kept[i], queryLower, queryTerms)]]
        ranked == SortByScore(scored, <<>>)
    IN  [i \in 1..Len(ranked) |-> ranked[i].entry]

\* SearchTool.filterAndRankEntries(entries, query, type) when it does not throw
filterAndRankEntries(entries, query, type) ==
    LET queryLower == ToLower(query)
        queryTerms == SplitWs(queryLower, <<>>)
        kept == SelectSeq(entries, LAMBDA e : FilterKeeps(e, queryTerms, type))
        scored == [i \in 1..Len(kept) |->
                     [entry |-> kept[i], score |-> Score(kept[i], queryLower, queryTerms)]]
        ranked == SortByScore(scored, <<>>)
    IN  [i \in 1..Len(ranked) |-> ranked[i].entry]

RECURSIVE ScrapeSources(_, _, _, _, _)
\* the callbacks of Promise.all(sources.map(...)) in the order in which their
\* scrapes settle: what they push to allEntries and to errors
ScrapeSources(sources, order, params, t, scrapers) ==
    IF order = <<>> THEN [entries |-> <<>>, errors |-> <<>>, scrapes |-> <<>>, fetched |-> <<>>]
    ELSE With(sources[Head(order)], LAMBDA source :
         With(ScrapeSources(sources, Tail(order), params, t, scrapers), LAMBDA rest :
             IF ~scrapers[source].configured THEN rest
             ELSE
         With(scrape(source, Obj(<<[k |-> "query", v |-> Prop(params, "query")],
                                   [k |-> "type", v |-> Prop(params, "type")]>>),
                     t, scrapers[source].net, scrapers[source].base), LAMBDA result :
             IF result.settled = "rejected"
             THEN [rest EXCEPT !.errors = <<[msg |-> "Failed to search " \o source,
                                             cause |-> "", source |-> source]>> \o @,
                               !.scrapes = <<source>> \o @,
                               !.fetched = result.fetched \o @]
             ELSE [entries |-> result.entries \o rest.entries,
                   errors |-> result.errors \o rest.errors,
                   scrapes |-> <<source>> \o rest.scrapes,
                   fetched |-> result.fetched \o rest.fetched])))

\* array.slice(0, limit): the whole array when limit is undefined
SliceTo(array, limit) ==
    IF limit.t = "number" THEN SubSeq(array, 1, Min(limit.n, Len(array))) ELSE array

\* the errors pushed while sources.map runs, before any scrape has settled
NotConfiguredErrors(sources, scrapers) ==
    LET missing == SelectSeq(sources, LAMBDA s : ~scrapers[s].configured)
    IN  [i \in 1..Len(missing) |->
           [msg |-> "Scraper not configured for source", cause |-> "", source |-> missing[i]]]

\* SearchTool.search(params) at time t, order being the order in which the
\* scrapes of the sources settle
search(params, order, t, mem, d, scrapers, faults) ==
    With(generateCacheKey("search", params), LAMBDA cacheKey :
    With(DocCacheGet(mem, d, cacheKey, t, faults), LAMBDA c :
        IF c.hit THEN ToolOutcome(FALSE, c.data, <<>>, <<>>, <<>>, TRUE, c.mem, c.disk)
        ELSE
    With(IF Truthy(Prop(params, "sources")) THEN Prop(params, "sources").a
         ELSE ScraperKeys(scrapers), LAMBDA sources :
    With(ScrapeSources(sources, order, params, t, scrapers), LAMBDA all :
    With(NotConfiguredErrors(sources, scrapers) \o all.errors, LAMBDA errors :
        IF ScoringThrows(all.entries, Prop(params, "query").s, Prop(params, "type"))
        THEN ToolOutcome(TRUE, <<>>, all.scrapes, all.fetched, errors, FALSE, c.mem, c.disk)
        ELSE
    With(filterAndRankEntries(all.entries, Prop(params, "query").s, Prop(params, "type")),
         LAMBDA filteredEntries :
    With([entries |-> SliceTo(filteredEntries, Prop(params, "limit")),
          totalCount |-> Len(filteredEntries),
          query |-> Prop(params, "query").s,
          sources |-> sources,
          rep |-> "Date"], LAMBDA result :
    With(DocCacheSet(c.mem, c.disk, cacheKey, result, 1800, t, faults), LAMBDA s :
        ToolOutcome(FALSE, <<result>>, all.scrapes, all.fetched, errors, FALSE, s.mem,
                    s.disk)))))))))

(***************************************************************************)
(* The tools and the scrapers as a state machine.                          *)
(***************************************************************************)
\* the number of tool calls, and of direct scrape calls at a time
MaxCalls == 2
MaxInflight == 2

\* every source reachable and configured
AllUp == [s \in Sources |-> [net |-> "up", base |-> PublicBase(s), configured |-> TRUE]]

\* the environments: every source working, or one source whose requests all
\* fail, whose pages cannot be parsed, whose base URL is on the local machine,
\* or for which no scraper is configured
Envs ==
    {AllUp}
        \cup {[AllUp EXCEPT ![s].net = n] : s \in Sources, n \in {"down", "garbled"}}
        \cup {[AllUp EXCEPT ![s].base = LocalBase] : s \in Sources}
        \cup {[AllUp EXCEPT ![s].configured = FALSE] : s \in Sources}

\* a parameter object from its properties in insertion order, the absent ones
\* left out
Params(pairs) == SelectSeq(pairs, LAMBDA kv : kv.v # Undefined)

\* the arguments of get_api_reference the model calls it with: a page that
\* exists, one found under the alternative URL, one that does not exist
ApiParams ==
    {Params(<<[k |-> "apiName", v |-> Str(a)], [k |-> "source", v |-> Str(s)],
              [k |-> "version", v |-> Undefined]>>) :
        a \in {<<"a", "p", "p">>, <<"W", "r", "a", "p">>},
        s \in {<<"e", "l", "e", "c", "t", "r", "o", "n">>, <<"n", "o", "d", "e">>}}

\* the arguments of search_documentation the model calls it with
SearchParams ==
    {Params(<<[k |-> "query", v |-> Str(<<"a", "p", "p">>)], [k |-> "limit", v |-> NumOf(10)]>>),
     Params(<<[k |-> "query", v |-> Str(<<"A", "p", "p", " ", "m", "e", "n", "u">>)],
              [k |-> "sources", v |-> Arr(<<"react", "electron", "node">>)],
              [k |-> "type", v |-> Str(<<"a", "p", "i">>)], [k |-> "limit", v |-> NumOf(1)]>>)}

\* the orders in which n scrapes can settle
Orders(n) == {o \in [1..n -> 1..n] : \A i, j \in 1..n : i # j => o[i] # o[j]}

\* the sources a search with these arguments scrapes
SearchSources(params) ==
    IF Truthy(Prop(params, "sources")) THEN Prop(params, "sources").a ELSE ScraperKeys(env)

\* the elements of a sequence
Range(s) == {s[i] : i \in 1..Len(s)}

\* what is kept of a tool call for the properties: its arguments and time, its
\* outcome, the sources whose scrape it called, the URLs requested and the
\* error messages collected
Observed(tool, params, r) ==
    [tool |-> tool, params |-> params, at |-> now, inst |-> inst, threw |-> r.threw,
     result |-> r.result, scrapes |-> Range(r.scrapes), fetched |-> Range(r.fetched),
     errors |-> Range(r.errors), cached |-> r.cached]

\* a server or a scraper set up in one of the environments
InitTools ==
    /\ CacheInit
    /\ fpIn = <<>>
    /\ fpOut = <<>>
    /\ env \in Envs
    /\ ToolsIdle

\* a get_api_reference request
GetApiReference(params, faults) ==
    /\ up
    /\ calls < MaxCalls
    /\ calls' = calls + 1
    /\ With(getApiReference(params, now, memoryCache, disk, env, faults), LAMBDA r :
           /\ memoryCache' = r.mem
           /\ disk' = r.disk
           /\ prev' = tlast
           /\ tlast' = <<Observed("get_api_reference", params, r)>>)
    /\ UNCHANGED <<now, up, inst, nextSweep, last, written, ops, fpIn, fpOut>>
    /\ UNCHANGED <<env, scrapeCalls, frontVars, pureVars>>

\* a search_documentation request
Search(params, order, faults) ==
    /\ up
    /\ calls < MaxCalls
    /\ calls' = calls + 1
    /\ With(search(params, order, now, memoryCache, disk, env, faults), LAMBDA r :
           /\ memoryCache' = r.mem
           /\ disk' = r.disk
           /\ prev' = tlast
           /\ tlast' = <<Observed("search_documentation", params, r)>>)
    /\ UNCHANGED <<now, up, inst, nextSweep, last, written, ops, fpIn, fpOut>>
    /\ UNCHANGED <<env, scrapeCalls, frontVars, pureVars>>

NextTools ==
    \/ \E params \in ApiParams : GetApiReference(params, {})
    \/ \E params \in SearchParams :
         \E order \in Orders(Len(SearchSources(params))) : Search(params, order, {})
    \/ Tick
    \/ Sweep({})
    \/ MemCheck

SpecTools == InitTools /\ [][NextTools]_vars

(***************************************************************************)
(* Scrapers called directly, several calls at a time.                      *)
(***************************************************************************)
\* the arguments the model calls scrape with: null, the empty object, and
\* objects with well-formed, blank and malformed fields
ScrapeParams ==
    {Null, Obj(<<>>),
     Obj(<<[k |-> "apiName", v |-> Str(<<"A", "p", "p">>)]>>),
     Obj(<<[k |-> "apiName", v |-> Str(<<"t", "r", "a", "y">>)], [k |-> "version", v |-> Str(<<"9">>)]>>),
     Obj(<<[k |-> "apiName", v |-> Str(<<>>)]>>),
     Obj(<<[k |-> "apiName", v |-> NumOf(42)]>>),
     Obj(<<[k |-> "topic", v |-> Str(<<"a", "p", "p">>)]>>),
     Obj(<<[k |-> "query", v |-> Str(<<"w", "e", "b">>)], [k |-> "type", v |-> Undefined]>>),
     Obj(<<[k |-> "type", v |-> Str(<<"m", "i", "g", "r", "a", "t", "i", "o", "n">>)], [k |-> "fromVersion", v |-> Str(<<"1">>)],
           [k |-> "toVersion", v |-> NumOf(42)]>>),
     Obj(<<[k |-> "repo", v |-> Str(<<"a">>)], [k |-> "path", v |-> Str(<<"b">>)]>>)}

\* scraper.scrape(params) is called: its promise is pending; the slot of a call
\* whose result has been taken is used again
StartScrape(source, params) ==
    /\ env[source].configured
    /\ LET pending == SelectSeq(scrapeCalls, LAMBDA c : c.result = <<>>)
       IN  /\ Len(pending) < MaxInflight
           /\ scrapeCalls' = IF Len(scrapeCalls) < MaxInflight
                             THEN Append(scrapeCalls, [source |-> source, params |-> params,
                                                       result |-> <<>>])
                             ELSE Append(pending, [source |-> source, params |-> params,
                                                   result |-> <<>>])
    /\ UNCHANGED <<now, up, inst, memoryCache, disk, nextSweep, last, written, ops>>
    /\ UNCHANGED <<fpIn, fpOut, env, tlast, prev, calls, frontVars, pureVars>>

\* the promise of the i-th call settles, in any order with the other calls
SettleScrape(i) ==
    /\ i \in 1..Len(scrapeCalls)
    /\ scrapeCalls[i].result = <<>>
    /\ LET c == scrapeCalls[i]
       IN  scrapeCalls' =
               [scrapeCalls EXCEPT ![i].result =
                    <<scrape(c.source, c.params, now, env[c.source].net, env[c.source].base)>>]
    /\ UNCHANGED <<now, up, inst, memoryCache, disk, nextSweep, last, written, ops>>
    /\ UNCHANGED <<fpIn, fpOut, env, tlast, prev, calls, frontVars, pureVars>>

NextScrape ==
    \/ \E source \in Sources, params \in ScrapeParams : StartScrape(source, params)
    \/ \E i \in 1..MaxInflight : SettleScrape(i)

SpecScrape == InitTools /\ [][NextScrape]_vars

(***************************************************************************)
(* Properties of the tools and the scrapers.                               *)
(***************************************************************************)
\* the last two tool calls were get_api_reference with the same arguments, the
\* second at most 3600 s after the first
RepeatedApiReference ==
    /\ tlast # <<>>
    /\ prev # <<>>
    /\ tlast[1].tool = "get_api_reference"
    /\ prev[1].tool = "get_api_reference"
    /\ tlast[1].params = prev[1].params
    /\ tlast[1].at - prev[1].at <= 3600 * 1000

OnlyFailing(f) ==
    /\ env[f].net = "down"
    /\ \A s \in Sources : env[s].configured
    /\ \A s \in Sources \ {f} : env[s] = AllUp[s]

\* what a search would rank from the requested sources other than f
RankedWithout(call, f) ==
    LET others == SelectSeq(SearchSources(call.params), LAMBDA s : s # f)
        got == ScrapeSources(others, [i \in 1..Len(others) |-> i], call.params, call.at, env)
    IN  filterAndRankEntries(got.entries, Prop(call.params, "query").s,
                             Prop(call.params, "type"))

\* C8: a search over several sources, one of which fails on every outbound
\* call, returns the matching entries of the other sources, and the errors
\* collected for it contain a message that names the failing source.
MultiSourceResilience ==
    \A f \in Sources :
        (/\ tlast # <<>>
         /\ tlast[1].tool = "search_documentation"
         /\ ~tlast[1].cached
         /\ OnlyFailing(f)
         /\ f \in Range(SearchSources(tlast[1].params))
         /\ Len(SearchSources(tlast[1].params)) > 1)
        => LET r == tlast[1].result[1]
               expected == RankedWithout(tlast[1], f)
           IN  /\ r.totalCount = Len(expected)
               /\ Len(r.entries) = Min(Prop(tlast[1].params, "limit").n, Len(expected))
               /\ Range(r.entries) \subseteq Range(expected)
               /\ \E e \in tlast[1].errors : e.source = f

\* the result of a direct scrape call that has settled
Settled(i) == scrapeCalls[i].result[1]

\* C9: the promise of every scrape call resolves, whatever the parameter object
\* and whatever fails inside (fetch, URL guard, parse), to a result with an
\* entries array, the source id of the scraper and a scrapedAt time; it never
\* rejects, also while other scrape calls are pending.
ScrapeNeverRejects ==
    \A i \in 1..Len(scrapeCalls) :
        scrapeCalls[i].result # <<>> =>
            /\ Settled(i).settled = "resolved"
            /\ DOMAIN Settled(i).entries = 1..Len(Settled(i).entries)
            /\ Settled(i).source = scrapeCalls[i].source
            /\ Settled(i).scrapedAt \in Nat

\* a scrape with a malformed parameter object has settled with an error and no
\* entries while another scrape call was still pending
FailedScrapeWhilePending ==
    \E i, j \in 1..Len(scrapeCalls) :
        /\ scrapeCalls[i].result # <<>>
        /\ scrapeCalls[i].params \in {Null, Obj(<<[k |-> "apiName", v |-> NumOf(42)]>>)}
        /\ Settled(i).errors # <<>>
        /\ Settled(i).entries = <<>>
        /\ scrapeCalls[j].result = <<>>

\* the i-th call was an apiName lookup of the Electron scraper that sent
\* requests all of which failed
FailedApiLookup(i) ==
    /\ scrapeCalls[i].result # <<>>
    /\ scrapeCalls[i].source = "electron"
    /\ scrapeCalls[i].params.t = "object"
    /\ IsString(Prop(scrapeCalls[i].params.p, "apiName"))
    /\ Truthy(Prop(scrapeCalls[i].params.p, "apiName"))
    /\ Settled(i).fetched # <<>>
    /\ \A k \in 1..Len(Settled(i).fetched) :
           env["electron"].net = "down" \/ Site(Settled(i).fetched[k]).status # 200

\* C10: when every outbound fetch of an apiName lookup fails, ElectronScraper's
\* scrape returns no entries and an errors list of exactly one message, which
\* contains 'Failed to scrape Electron docs'.
ApiLookupFailureRecorded ==
    \A i \in 1..Len(scrapeCalls) :
        FailedApiLookup(i) =>
            /\ Settled(i).entries = <<>>
            /\ Len(Settled(i).errors) = 1
            /\ Settled(i).errors[1].msg = "Failed to scrape Electron docs"
(***************************************************************************)
(* tools/examples.ts : ExamplesTool                                        *)
(* tools/migration.ts : MigrationTool                                      *)
(***************************************************************************)
\* an array of entries as a tool returns and caches it; rep tells whether the
\* lastUpdated fields in it are Date objects ("plain": there is none)
EntryArray(entries) ==
    [list |-> entries, rep |-> IF entries = <<>> THEN "plain" ELSE "Date"]

RECURSIVE ExampleSources(_, _, _, _, _)
\* the callbacks of Promise.all(sources.map(...)) of findExamples in the order
\* in which their scrapes settle: what they push to allExamples and to errors
ExampleSources(sources, order, params, t, scrapers) ==
    IF order = <<>> THEN [entries |-> <<>>, errors |-> <<>>, scrapes |-> <<>>, fetched |-> <<>>]
    ELSE With(sources[Head(order)], LAMBDA source :
         With(ExampleSources(sources, Tail(order), params, t, scrapers), LAMBDA rest :
             IF ~scrapers[source].configured THEN rest
             ELSE
         With(scrape(source, Obj(<<[k |-> "topic", v |-> Prop(params, "topic")],
                                   [k |-> "type", v |-> Str(<<"e", "x", "a", "m", "p", "l", "e">>)]>>),
                     t, scrapers[source].net, scrapers[source].base), LAMBDA result :
             IF result.settled = "rejected"
             THEN [rest EXCEPT !.errors = <<[msg |-> "Failed to find examples in " \o source,
                                             cause |-> "", source |-> source]>> \o @,
                               !.scrapes = <<source>> \o @,
                               !.fetched = result.fetched \o @]
             ELSE [entries |-> SelectSeq(result.entries, LAMBDA e : e.type = "example")
                                 \o rest.entries,
                   errors |-> rest.errors,
                   scrapes |-> <<source>> \o rest.scrapes,
                   fetched |-> result.fetched \o rest.fetched])))

\* example.metadata?.language, << >> when there is none: an entry of the model
\* without the field is one parsed from a code block that names no language, to
\* which the scraper gives its default
MetadataLanguage(example) ==
    IF "language" \in DOMAIN example THEN example.language
    ELSE IF example.type # "example" THEN <<>>
    ELSE IF example.source = "react" THEN <<"j", "s", "x">>
    ELSE <<"j", "a", "v", "a", "s", "c", "r", "i", "p", "t">>

\* example.metadata?.description is truthy; no scraper sets it
MetadataDescription(example) ==
    "description" \in DOMAIN example /\ example.description # <<>>

\* the filter by params.language of findExamples
FilterByLanguage(allExamples, language) ==
    IF ~Truthy(language) THEN allExamples
    ELSE SelectSeq(allExamples,
             LAMBDA example : /\ MetadataLanguage(example) # <<>>
                              /\ ToLower(MetadataLanguage(example)) = ToLower(language.s))

\* the score of rankExamples without the points for an official source
ExampleScoreAnySource(example, topicLower, topicTerms) ==
    (IF Includes(ToLower(example.title), topicLower) THEN 50 ELSE 0)
    + SumSeq([i \in 1..Len(topicTerms) |->
                (IF Includes(ToLower(example.title), topicTerms[i]) THEN 20 ELSE 0)
                + (IF Includes(ToLower(example.content), topicTerms[i]) THEN 5 ELSE 0)])
    + (IF MetadataDescription(example) THEN 10 ELSE 0)

\* the score rankExamples gives an example
ExampleScore(example, topicLower, topicTerms) ==
    (IF Includes(ToLower(example.title), topicLower) THEN 50 ELSE 0)
    + SumSeq([i \in 1..Len(topicTerms) |->
                (IF Includes(ToLower(example.title), topicTerms[i]) THEN 20 ELSE 0)
                + (IF Includes(ToLower(example.content), topicTerms[i]) THEN 5 ELSE 0)])
    + (IF MetadataDescription(example) THEN 10 ELSE 0)
    + (IF example.source # "github" THEN 15 ELSE 0)

\* ExamplesTool.rankExamples(examples, topic)
rankExamples(examples, topic) ==
    With(ToLower(topic), LAMBDA topicLower :
    With(SortByScore([i \in 1..Len(examples) |->
                        [entry |-> examples[i],
                         score |-> ExampleScore(examples[i], topicLower,
                                                SplitWs(topicLower, <<>>))]], <<>>),
         LAMBDA ranked : [i \in 1..Len(ranked) |-> ranked[i].entry]))

\* ExamplesTool.findExamples(params) at time t, order being the order in which
\* the scrapes of the sources settle, with rankExamples
findExamples(params, order, t, mem, d, scrapers, faults) ==
    With(generateCacheKey("examples", params), LAMBDA cacheKey :
    With(DocCacheGet(mem, d, cacheKey, t, faults), LAMBDA c :
        IF c.hit THEN ToolOutcome(FALSE, c.data, <<>>, <<>>, <<>>, TRUE, c.mem, c.disk)
        ELSE
    With(IF Truthy(Prop(params, "sources")) THEN Prop(params, "sources").a
         ELSE ScraperKeys(scrapers), LAMBDA sources :
    With(ExampleSources(sources, order, params, t, scrapers), LAMBDA all :
    With(NotConfiguredErrors(sources, scrapers) \o all.errors, LAMBDA errors :
        IF ~IsString(Prop(params, "topic"))
        THEN ToolOutcome(TRUE, <<>>, all.scrapes, all.fetched, errors, FALSE, c.mem, c.disk)
        ELSE
    With(FilterByLanguage(all.entries, Prop(params, "language")), LAMBDA filteredExamples :
    With(rankExamples(filteredExamples, Prop(params, "topic").s), LAMBDA rankedExamples :
    With(EntryArray(SliceTo(rankedExamples, Prop(params, "limit"))),
         LAMBDA limitedExamples :
    With(DocCacheSet(c.mem, c.disk, cacheKey, limitedExamples, 1800, t, faults), LAMBDA s :
        ToolOutcome(FALSE, <<limitedExamples>>, all.scrapes, all.fetched, errors, FALSE,
                    s.mem, s.disk))))))))))

\* MigrationTool.getMigrationGuide(params) at time t
getMigrationGuide(params, t, mem, d, scrapers, faults) ==
    With(generateCacheKey("migration", params), LAMBDA cacheKey :
    With(DocCacheGet(mem, d, cacheKey, t, faults), LAMBDA c :
    With(SourceId(Prop(params, "source").s), LAMBDA source :
        IF c.hit THEN ToolOutcome(FALSE, c.data, <<>>, <<>>, <<>>, TRUE, c.mem, c.disk)
        ELSE IF ~scrapers[source].configured
        THEN ToolOutcome(TRUE, <<>>, <<>>, <<>>, <<>>, FALSE, c.mem, c.disk)
        ELSE
    With(scrape(source, Obj(<<[k |-> "type", v |-> Str(<<"m", "i", "g", "r", "a", "t", "i", "o", "n">>)],
                              [k |-> "fromVersion", v |-> Prop(params, "fromVersion")],
                              [k |-> "toVersion", v |-> Prop(params, "toVersion")]>>),
                t, scrapers[source].net, scrapers[source].base), LAMBDA result :
    With(EntryArray(SelectSeq(result.entries, LAMBDA e : e.type = "migration")),
         LAMBDA migrationEntries :
    With(DocCacheSet(c.mem, c.disk, cacheKey, migrationEntries, 7200, t, faults), LAMBDA s :
        ToolOutcome(FALSE, <<migrationEntries>>, <<source>>, result.fetched, <<>>, FALSE,
                    s.mem, s.disk)))))))

(***************************************************************************)
(* The four retrieval tools called one after another.                      *)
(***************************************************************************)
\* the arguments of find_examples and get_migration_guide the model calls them
\* with
ExampleParams ==
    {Params(<<[k |-> "topic", v |-> Str(<<"a", "p", "p">>)],
              [k |-> "sources", v |-> Arr(<<"electron", "github">>)],
              [k |-> "limit", v |-> NumOf(5)]>>),
     Params(<<[k |-> "topic", v |-> Str(<<"A", "p", "p">>)],
              [k |-> "sources", v |-> Arr(<<"node", "react">>)],
              [k |-> "limit", v |-> NumOf(1)]>>)}

MigrationParams ==
    {Params(<<[k |-> "source", v |-> Str(s)], [k |-> "fromVersion", v |-> Str(<<"1">>)],
              [k |-> "toVersion", v |-> Str(<<"2">>)]>>) :
        s \in {<<"e", "l", "e", "c", "t", "r", "o", "n">>, <<"r", "e", "a", "c", "t">>}}

\* a find_examples request
FindExamples(params, order, faults) ==
    /\ up
    /\ calls < MaxCalls
    /\ calls' = calls + 1
    /\ With(findExamples(params, order, now, memoryCache, disk, env, faults), LAMBDA r :
           /\ memoryCache' = r.mem
           /\ disk' = r.disk
           /\ prev' = tlast
           /\ tlast' = <<Observed("find_examples", params, r)>>)
    /\ UNCHANGED <<now, up, inst, nextSweep, last, written, ops, fpIn, fpOut>>
    /\ UNCHANGED <<env, scrapeCalls, frontVars, pureVars>>

\* a get_migration_guide request
GetMigrationGuide(params, faults) ==
    /\ up
    /\ calls < MaxCalls
    /\ calls' = calls + 1
    /\ With(getMigrationGuide(params, now, memoryCache, disk, env, faults), LAMBDA r :
           /\ memoryCache' = r.mem
           /\ disk' = r.disk
           /\ prev' = tlast
           /\ tlast' = <<Observed("get_migration_guide", params, r)>>)
    /\ UNCHANGED <<now, up, inst, nextSweep, last, written, ops, fpIn, fpOut>>
    /\ UNCHANGED <<env, scrapeCalls, frontVars, pureVars>>

NextRetrieve ==
    \/ \E params \in ApiParams : GetApiReference(params, {})
    \/ \E params \in {p \in SearchParams : Truthy(Prop(p, "sources"))} :
         \E order \in Orders(Len(SearchSources(params))) : Search(params, order, {})
    \/ \E params \in ExampleParams :
         \E order \in Orders(Len(SearchSources(params))) : FindExamples(params, order, {})
    \/ \E params \in MigrationParams : GetMigrationGuide(params, {})

SpecRetrieve == InitTools /\ [][NextRetrieve]_vars

\* the sources a tool call names for which no scraper is configured
UnconfiguredNamed(call) ==
    {s \in Sources :
        /\ ~env[s].configured
        /\ \/ /\ Truthy(Prop(call.params, "source"))
              /\ SourceId(Prop(call.params, "source").s) = s
           \/ /\ Truthy(Prop(call.params, "sources"))
              /\ s \in Range(Prop(call.params, "sources").a)}

\* C11: a retrieval operation asked for a source without a configured adapter
\* does not throw; it records an error naming that source and returns a result.
UnconfiguredSourceIsSoft ==
    \A i \in 1..Len(tlast) :
        (~tlast[i].cached /\ UnconfiguredNamed(tlast[i]) # {}) =>
            /\ ~tlast[i].threw
            /\ tlast[i].result # <<>>
            /\ \A s \in UnconfiguredNamed(tlast[i]) :
                   \E e \in tlast[i].errors : e.source = s

\* the same for the two operations that take a list of sources
UnconfiguredSourceIsSoftInLists ==
    \A i \in 1..Len(tlast) :
        (/\ ~tlast[i].cached
         /\ UnconfiguredNamed(tlast[i]) # {}
         /\ tlast[i].tool \in {"search_documentation", "find_examples"}) =>
            /\ ~tlast[i].threw
            /\ tlast[i].result # <<>>
            /\ \A s \in UnconfiguredNamed(tlast[i]) :
                   \E e \in tlast[i].errors : e.source = s
(***************************************************************************)
(* The ranking of SearchTool.search applied to given entries.              *)
(***************************************************************************)
\* the longest array of entries handed to the ranking
MaxEntries == 2

\* the entries the ranking is tried on: titles that equal the query, contain it
\* once or many times, or do not contain it, with contents that do or do not;
\* titles with a call, with an operator and with a dot
RankEntries ==
    {createEntry(title, content, type, "electron") :
        title \in {<<"a">>, <<"A">>, <<"a", "b">>, [i \in 1..12 |-> "a"], <<"b">>,
                   <<"f", "(", "x", ")">>, <<"c", "+", "+">>, <<"a", ".", "b">>},
        content \in {<<>>, <<"a", " ", "b">>},
        type \in {"api", "guide"}}

\* the queries of the ranking: one and two terms of letters, a term with a
\* wildcard, and terms with an open group, a quantifier and a doubled one
RankQueries ==
    {<<"a">>, <<"a", " ", "b">>, <<"a", ".">>, <<"f", "(">>, <<"c", "+">>, <<"c", "+", "+">>}

\* entries, a query, a type filter and a limit
InitRank ==
    /\ CacheInit
    /\ fpIn = <<>>
    /\ fpOut = <<>>
    /\ env = <<>>
    /\ tlast = <<>>
    /\ prev = <<>>
    /\ calls = 0
    /\ scrapeCalls = <<>>
    /\ streams = <<>>
    /\ activeTransports = <<>>
    /\ posts = <<>>
    /\ stopping = FALSE
    /\ closing = <<>>
    /\ urlCheck = <<>>
    /\ pace = <<>>
    /\ bind = <<>>
    /\ tasks = <<>>
    /\ rank \in [entries : UNION {[1..n -> RankEntries] : n \in 0..MaxEntries},
                 query : RankQueries,
                 type : {Undefined, Str(<<"a", "p", "i">>)},
                 limit : {NumOf(1), NumOf(10)},
                 out : {<<>>}]

\* the part of search that follows the scraping: filterAndRankEntries, which
\* may throw, the slice to the limit, and totalCount
Rank ==
    /\ rank.out = <<>>
    /\ IF ScoringThrows(rank.entries, rank.query, rank.type)
       THEN rank' = [rank EXCEPT !.out = <<[threw |-> TRUE, filtered |-> <<>>,
                                            entries |-> <<>>, totalCount |-> 0]>>]
       ELSE With(filterAndRankEntries(rank.entries, rank.query, rank.type),
                 LAMBDA filteredEntries :
                rank' = [rank EXCEPT !.out = <<[threw |-> FALSE, filtered |-> filteredEntries,
                                                entries |-> SliceTo(filteredEntries, rank.limit),
                                                totalCount |-> Len(filteredEntries)]>>])
    /\ UNCHANGED <<now, up, inst, memoryCache, disk, nextSweep, last, written, ops>>
    /\ UNCHANGED <<fpIn, fpOut, env, tlast, prev, calls, scrapeCalls, frontVars, urlCheck, pace, bind, tasks>>

NextRank == Rank

SpecRank == InitRank /\ [][NextRank]_vars

\* the entry is of the requested type and every term of the query occurs in its
\* title or its content
PassesFilter(entry, query, type) ==
    /\ Truthy(type) => TypeChars[entry.type] = type.s
    /\ \A term \in Range(SplitWs(ToLower(query), <<>>)) :
           Includes(ToLower(entry.title), term) \/ Includes(ToLower(entry.content), term)

\* the title of the entry equals the query, whatever the case of the letters
TitleIsQuery(entry, query) == ToLower(entry.title) = ToLower(query)

\* of a search that returns: at most limit entries are returned, and totalCount
\* is the number of entries that pass the filter
LimitAndTotalCount ==
    rank # <<>> /\ rank.out # <<>> /\ ~rank.out[1].threw =>
        /\ Len(rank.out[1].entries) <= rank.limit.n
        /\ rank.out[1].totalCount =
               Cardinality({i \in 1..Len(rank.entries) :
                               PassesFilter(rank.entries[i], rank.query, rank.type)})

\* C12: a search returns at most limit entries, totalCount is the number of
\* entries that passed the filter, and an entry whose title equals the query is
\* ranked before every matching entry whose title does not.
RankingContract ==
    /\ LimitAndTotalCount
    /\ rank # <<>> /\ rank.out # <<>> =>
           \A e1, e2 \in {e \in Range(rank.entries) : PassesFilter(e, rank.query, rank.type)} :
               (TitleIsQuery(e1, rank.query) /\ ~TitleIsQuery(e2, rank.query)) =>
                   /\ e2 \in Range(rank.out[1].entries) => e1 \in Range(rank.out[1].entries)
                   /\ \A i, j \in 1..Len(rank.out[1].entries) :
                          (rank.out[1].entries[i] = e1 /\ rank.out[1].entries[j] = e2) => i < j
(***************************************************************************)
(* The HTTP front end of index.ts: SSE sessions and the JSON-RPC           *)
(* dispatcher behind POST /mcp.                                            *)
(***************************************************************************)
\* limit of SearchDocumentationSchema: z.number().min(1).max(100).default(10)
DefaultLimit == 10

\* limit of FindExamplesSchema: z.number().min(1).max(50).default(5)
DefaultExamplesLimit == 5

\* value.key of a parsed JSON value that is not null
Field(value, key) == IF value.t = "object" THEN Prop(value.p, key) ELSE Undefined

\* JSON.stringify({jsonrpc: '2.0', id, error: {code, message}}): a property
\* whose value is undefined is left out of the text
ErrorResponse(id, code, message) ==
    [id |-> IF id = Undefined THEN <<>> ELSE <<id>>,
     result |-> <<>>,
     error |-> <<[code |-> code, message |-> message]>>]

\* JSON.stringify({jsonrpc: '2.0', id, result})
ResultResponse(id, result) ==
    [id |-> IF id = Undefined THEN <<>> ELSE <<id>>,
     result |-> <<result>>,
     error |-> <<>>]

\* the 'end' listener has answered the request
Answered(response) ==
    [answered |-> TRUE, response |-> response, id |-> Undefined, tool |-> "", params |-> <<>>]

\* the 'end' listener awaits mcpServer.execute...Tool(params)
Awaiting(id, tool, params) ==
    [answered |-> FALSE, response |-> <<>>, id |-> id, tool |-> tool, params |-> params]

WordChars ==
    DOMAIN LowerOf \cup {LowerOf[c] : c \in DOMAIN LowerOf} \cup {Digits[i] : i \in 1..10} \cup {"_"}

\* the number of leading characters of s that are in the class
RECURSIVE RunOf(_, _)
RunOf(s, class) == IF s # <<>> /\ Head(s) \in class THEN 1 + RunOf(Tail(s), class) ELSE 0

\* the length of the match of /javascript:/i at the start of s, 0 if none
JavascriptAt(s) == IF StartsWith(ToLower(s), <<"j", "a", "v", "a", "s", "c", "r", "i", "p", "t", ":">>) THEN 11 ELSE 0

\* the length of the match of /on\w+\s*=/i at the start of s, 0 if none
OnHandlerAt(s) ==
    IF ~StartsWith(ToLower(s), <<"o", "n">>) THEN 0
    ELSE With(RunOf(SubSeq(s, 3, Len(s)), WordChars), LAMBDA w :
         With(RunOf(SubSeq(s, 3 + w, Len(s)), {" "}), LAMBDA ws :
             IF w > 0 /\ 2 + w + ws < Len(s) /\ s[3 + w + ws] = "="
             THEN 3 + w + ws ELSE 0))

\* the first position at or after i where t occurs in s, 0 if none
RECURSIVE FindFrom(_, _, _)
FindFrom(s, t, i) ==
    IF i + Len(t) - 1 > Len(s) THEN 0
    ELSE IF SubSeq(s, i, i + Len(t) - 1) = t THEN i
    ELSE FindFrom(s, t, i + 1)

\* the length of the match of /<script\b[^<]*(?:(?!<\/script>)<[^<]*)*<\/script>/i
\* at the start of s, 0 if none: an opening tag up to the first closing tag
ScriptAt(s) ==
    IF ~StartsWith(ToLower(s), <<"<", "s", "c", "r", "i", "p", "t">>) \/ (Len(s) > 7 /\ s[8] \in WordChars) THEN 0
    ELSE With(FindFrom(ToLower(s), <<"<", "/", "s", "c", "r", "i", "p", "t", ">">>, 8), LAMBDA close :
             IF close = 0 THEN 0 ELSE close + 8)

\* the length of the match of one of the three patterns at the start of s
MatchAt(pattern, s) ==
    CASE pattern = "script" -> ScriptAt(s)
      [] pattern = "javascript" -> JavascriptAt(s)
      [] pattern = "on" -> OnHandlerAt(s)

\* s.replace(pattern, '[sanitized]') with the g flag
RECURSIVE ReplaceAll(_, _)
ReplaceAll(s, pattern) ==
    IF s = <<>> THEN <<>>
    ELSE With(MatchAt(pattern, s), LAMBDA n :
             IF n > 0 THEN <<"[", "s", "a", "n", "i", "t", "i", "z", "e", "d", "]">> \o ReplaceAll(SubSeq(s, n + 1, Len(s)), pattern)
             ELSE <<Head(s)>> \o ReplaceAll(Tail(s), pattern))

\* sanitizedQuery of the POST handler
SanitizeQuery(query) ==
    ReplaceAll(ReplaceAll(ReplaceAll(query, "script"), "javascript"), "on")

\* sanitizedSources of the POST handler: the default list, or the elements
\* of an array that name a source
SanitizeSources(sources) ==
    IF ~Truthy(sources) THEN Arr(<<"electron", "react", "node", "github">>)
    ELSE IF sources.t = "array"
    THEN Arr(SelectSeq(sources.a, LAMBDA source : source \in {"electron", "react", "node", "github"}))
    ELSE sources

validTools ==
    {Str(<<"s", "e", "a", "r", "c", "h", "_", "d", "o", "c", "u", "m", "e", "n", "t", "a", "t", "i", "o", "n">>), Str(<<"g", "e", "t", "_", "a", "p", "i", "_", "r", "e", "f", "e", "r", "e", "n", "c", "e">>), Str(<<"f", "i", "n", "d", "_", "e", "x", "a", "m", "p", "l", "e", "s">>),
     Str(<<"g", "e", "t", "_", "m", "i", "g", "r", "a", "t", "i", "o", "n", "_", "g", "u", "i", "d", "e">>)}

\* the tools/call branch of the 'end' listener up to the call of the tool
toolsCall(id, params) ==
    IF ~Truthy(params) \/ ~Truthy(Field(params, "name"))
    THEN Answered(ErrorResponse(id, -32602, "Invalid params: missing tool name"))
    ELSE With(Field(params, "name"), LAMBDA name :
         With(Field(params, "arguments"), LAMBDA args :
             IF name \notin validTools
             THEN Answered(ErrorResponse(id, -32602, "Unknown tool"))
             ELSE IF name = Str(<<"s", "e", "a", "r", "c", "h", "_", "d", "o", "c", "u", "m", "e", "n", "t", "a", "t", "i", "o", "n">>)
             THEN IF ~Truthy(args) \/ ~Truthy(Field(args, "query"))
                     \/ ~IsString(Field(args, "query"))
                  THEN Answered(ErrorResponse(id, -32602, "Invalid params: query must be a string"))
                  ELSE Awaiting(id, "search_documentation",
                           <<[k |-> "query", v |-> Str(SanitizeQuery(Field(args, "query").s))],
                             [k |-> "sources", v |-> SanitizeSources(Field(args, "sources"))]>>)
             ELSE IF name = Str(<<"g", "e", "t", "_", "a", "p", "i", "_", "r", "e", "f", "e", "r", "e", "n", "c", "e">>)
             THEN IF ~Truthy(args) \/ ~Truthy(Field(args, "api_name"))
                     \/ ~Truthy(Field(args, "source"))
                  THEN Answered(ErrorResponse(id, -32602,
                                    "Invalid params: api_name and source are required"))
                  ELSE Awaiting(id, "get_api_reference",
                           <<[k |-> "apiName", v |-> Field(args, "api_name")],
                             [k |-> "source", v |-> Field(args, "source")]>>)
             ELSE IF name = Str(<<"f", "i", "n", "d", "_", "e", "x", "a", "m", "p", "l", "e", "s">>)
             THEN IF ~Truthy(args) \/ ~Truthy(Field(args, "topic"))
                  THEN Answered(ErrorResponse(id, -32602, "Invalid params: topic is required"))
                  ELSE Awaiting(id, "find_examples",
                           <<[k |-> "sources", v |-> SanitizeSources(Field(args, "sources"))],
                             [k |-> "topic", v |-> Field(args, "topic")]>>)
             ELSE IF ~Truthy(args) \/ ~Truthy(Field(args, "from_version"))
                     \/ ~Truthy(Field(args, "to_version")) \/ ~Truthy(Field(args, "source"))
                  THEN Answered(ErrorResponse(id, -32602,
                           "Invalid params: from_version, to_version, and source are required"))
                  ELSE Awaiting(id, "get_migration_guide",
                           <<[k |-> "from_version", v |-> Field(args, "from_version")],
                             [k |-> "source", v |-> Field(args, "source")],
                             [k |-> "to_version", v |-> Field(args, "to_version")]>>)))

\* the 'end' listener, with the dispatch a handler would make that looked at
\* the method before the envelope
handleMessageMethodFirst(body) ==
    IF body.kind # "json" \/ body.v = Null
    THEN Answered(ErrorResponse(Null, -32700, "Parse error"))
    ELSE With(Field(body.v, "jsonrpc"), LAMBDA jsonrpc :
         With(Field(body.v, "id"), LAMBDA id :
         With(Field(body.v, "method"), LAMBDA method :
         With(Field(body.v, "params"), LAMBDA params :
             IF method \notin {Str(<<"i", "n", "i", "t", "i", "a", "l", "i", "z", "e">>), Str(<<"t", "o", "o", "l", "s", "/", "l", "i", "s", "t">>), Str(<<"t", "o", "o", "l", "s", "/", "c", "a", "l", "l">>)}
             THEN Answered(ErrorResponse(id, -32601, "Method not found"))
             ELSE IF ~Truthy(jsonrpc) \/ jsonrpc # Str(<<"2", ".", "0">>)
             THEN Answered(ErrorResponse(IF Truthy(id) THEN id ELSE Null, -32600,
                                         "Invalid Request"))
             ELSE IF method = Str(<<"i", "n", "i", "t", "i", "a", "l", "i", "z", "e">>)
             THEN IF ~Truthy(params) \/ ~Truthy(Field(params, "protocolVersion"))
                  THEN Answered(ErrorResponse(id, -32602,
                                    "Invalid params: missing required fields"))
                  ELSE Answered(ResultResponse(id, [kind |-> "initialize"]))
             ELSE IF method = Str(<<"t", "o", "o", "l", "s", "/", "l", "i", "s", "t">>)
             THEN Answered(ResultResponse(id, [kind |-> "tools"]))
             ELSE toolsCall(id, params)))))

\* the 'end' listener of a POST up to its response or to the call of a tool;
\* the body is a text JSON.parse rejects, or the value it parses to
handleMessage(body) ==
    IF body.kind # "json" \/ body.v = Null
    THEN Answered(ErrorResponse(Null, -32700, "Parse error"))
    ELSE With(Field(body.v, "jsonrpc"), LAMBDA jsonrpc :
         With(Field(body.v, "id"), LAMBDA id :
         With(Field(body.v, "method"), LAMBDA method :
         With(Field(body.v, "params"), LAMBDA params :
             IF ~Truthy(jsonrpc) \/ jsonrpc # Str(<<"2", ".", "0">>)
             THEN Answered(ErrorResponse(IF Truthy(id) THEN id ELSE Null, -32600,
                                         "Invalid Request"))
             ELSE IF method = Str(<<"i", "n", "i", "t", "i", "a", "l", "i", "z", "e">>)
             THEN IF ~Truthy(params) \/ ~Truthy(Field(params, "protocolVersion"))
                  THEN Answered(ErrorResponse(id, -32602,
                                    "Invalid params: missing required fields"))
                  ELSE Answered(ResultResponse(id, [kind |-> "initialize"]))
             ELSE IF method = Str(<<"t", "o", "o", "l", "s", "/", "l", "i", "s", "t">>)
             THEN Answered(ResultResponse(id, [kind |-> "tools"]))
             ELSE IF method = Str(<<"t", "o", "o", "l", "s", "/", "c", "a", "l", "l">>)
             THEN toolsCall(id, params)
             ELSE Answered(ErrorResponse(id, -32601, "Method not found"))))))

\* what the format... methods of MCPDocsServer print of an entry; the date
\* is printed with toISOString, whether it is a Date or its JSON text
Shown(entries) ==
    [i \in 1..Len(entries) |->
       [title |-> entries[i].title, source |-> entries[i].source, type |-> entries[i].type,
        content |-> entries[i].content]]

\* the preview formatSearchResult prints of an entry's content
Preview(entries) ==
    [i \in 1..Len(entries) |->
       [entries[i] EXCEPT !.content = SubSeq(@, 1, Min(300, Len(@)))]]

\* the text executeSearchTool, executeDocumentationTool, executeExamplesTool
\* and executeMigrationTool make of the tool's result
FormatResult(tool, params, result) ==
    CASE tool = "search_documentation" ->
           [kind |-> "search", query |-> result[1].query, totalCount |-> result[1].totalCount,
            sources |-> result[1].sources, entries |-> Preview(Shown(result[1].entries))]
      [] tool = "get_api_reference" ->
           IF result = <<>> THEN [kind |-> "none"]
           ELSE [kind |-> "entry", entries |-> Shown(result)]
      [] tool = "find_examples" ->
           [kind |-> "examples", found |-> Len(result[1].list),
            entries |-> Shown(result[1].list)]
      [] tool = "get_migration_guide" ->
           [kind |-> "migration", source |-> Prop(params, "source"),
            fromVersion |-> Prop(params, "fromVersion"),
            toVersion |-> Prop(params, "toVersion"), entries |-> Shown(result[1].list)]

\* the number of sources whose scrapes the tool awaits together
Awaited(tool, params) ==
    IF tool \in {"search_documentation", "find_examples"}
    THEN Len(Prop(params, "sources").a) ELSE 0

\* mcpServer.execute...Tool(params) at time t
executeTool(tool, params, order, t, mem, d, scrapers) ==
    CASE tool = "search_documentation" -> search(params, order, t, mem, d, scrapers, {})
      [] tool = "get_api_reference" -> getApiReference(params, t, mem, d, scrapers, {})
      [] tool = "find_examples" -> findExamples(params, order, t, mem, d, scrapers, {})
      [] tool = "get_migration_guide" -> getMigrationGuide(params, t, mem, d, scrapers, {})

\* the message of the catch block around the call of each tool
InternalErrorMessage(tool) ==
    CASE tool = "search_documentation" -> "Internal error executing search tool"
      [] tool = "get_api_reference" -> "Internal error executing API reference tool"
      [] tool = "find_examples" -> "Internal error executing examples tool"
      [] tool = "get_migration_guide" -> "Internal error executing migration tool"

\* the response of the 'end' listener once the tool has settled
toolResponse(id, tool, params, r) ==
    IF r.threw THEN ErrorResponse(id, -32603, InternalErrorMessage(tool))
    ELSE ResultResponse(id, FormatResult(tool, params, r.result))

\* activeTransports.set(key, value), with the assignment that would drop the
\* other entries
MapSetOnly(map, key, value) == [k \in {key} |-> value]

\* activeTransports.set(key, value)
MapSet(map, key, value) ==
    [k \in DOMAIN map \cup {key} |-> IF k = key THEN value ELSE map[k]]

\* activeTransports.delete(key), with a handler that would empty the map
MapDeleteEvery(map, key) == [k \in {} |-> map[k]]

\* activeTransports.delete(key), with a handler that would delete nothing
MapDeleteNothing(map, key) == map

\* activeTransports.delete(key)
MapDelete(map, key) == [k \in DOMAIN map \ {key} |-> map[k]]

\* the session lookup of POST /mcp, with a lookup that would take a missing
\* sessionId for an unknown one
sessionLookupNoMissing(sessionId, map) ==
    IF sessionId = <<>> \/ sessionId[1] \notin DOMAIN map THEN 404 ELSE 0

\* the session lookup of POST /mcp: the status it answers with, 0 when it
\* goes on to read the body; sessionId is <<>> without the query parameter
sessionLookup(sessionId, map) ==
    IF sessionId = <<>> THEN 400
    ELSE IF sessionId[1] \notin DOMAIN map THEN 404
    ELSE 0

\* new SSEServerTransport(endpoint, res): the transport draws a random UUID
\* as its sessionId, one that no earlier connection has
NewSessionId(connections) == Len(connections) + 1

MaxStreams == 2
MaxPosts == 2

\* the environments of the HTTP server
HttpEnvs == {AllUp, [AllUp EXCEPT !["electron"].configured = FALSE]}

\* the text of a JSON-RPC request; a member whose value is undefined is absent
Request(jsonrpc, id, method, params) ==
    [kind |-> "json",
     v |-> Obj(Params(<<[k |-> "jsonrpc", v |-> jsonrpc], [k |-> "id", v |-> id],
                        [k |-> "method", v |-> method], [k |-> "params", v |-> params]>>))]

\* the params of a tools/call request
Call(name, arguments) ==
    Obj(<<[k |-> "name", v |-> Str(name)], [k |-> "arguments", v |-> Obj(arguments)]>>)

\* the bodies posted in the model
Bodies ==
    {[kind |-> "text"],
     [kind |-> "json", v |-> Null],
     Request(Str(<<"1", ".", "0">>), NumOf(0), Str(<<"t", "o", "o", "l", "s", "/", "l", "i", "s", "t">>), Undefined),
     Request(Undefined, NumOf(5), Str(<<"n", "o", "p", "e">>), Undefined),
     Request(Str(<<"2", ".", "0">>), NumOf(1), Str(<<"n", "o", "p", "e">>), Undefined),
     Request(Str(<<"2", ".", "0">>), Undefined, Undefined, Undefined),
     Request(Str(<<"2", ".", "0">>), NumOf(2), Str(<<"i", "n", "i", "t", "i", "a", "l", "i", "z", "e">>), Undefined),
     Request(Str(<<"2", ".", "0">>), NumOf(0), Str(<<"i", "n", "i", "t", "i", "a", "l", "i", "z", "e">>),
             Obj(<<[k |-> "protocolVersion", v |-> Str(<<"1">>)]>>)),
     Request(Str(<<"2", ".", "0">>), Undefined, Str(<<"t", "o", "o", "l", "s", "/", "l", "i", "s", "t">>), Undefined),
     Request(Str(<<"2", ".", "0">>), NumOf(0), Str(<<"t", "o", "o", "l", "s", "/", "c", "a", "l", "l">>), Call(<<"b", "o", "g", "u", "s">>, <<>>)),
     Request(Str(<<"2", ".", "0">>), NumOf(3), Str(<<"t", "o", "o", "l", "s", "/", "c", "a", "l", "l">>), Call(<<"s", "e", "a", "r", "c", "h", "_", "d", "o", "c", "u", "m", "e", "n", "t", "a", "t", "i", "o", "n">>, <<>>)),
     Request(Str(<<"2", ".", "0">>), NumOf(4), Str(<<"t", "o", "o", "l", "s", "/", "c", "a", "l", "l">>),
             Call(<<"s", "e", "a", "r", "c", "h", "_", "d", "o", "c", "u", "m", "e", "n", "t", "a", "t", "i", "o", "n">>,
                  <<[k |-> "query", v |-> Str(<<"a", "p", "p">>)],
                    [k |-> "sources", v |-> Arr(<<"node", "nowhere">>)]>>)),
     Request(Str(<<"2", ".", "0">>), NumOf(5), Str(<<"t", "o", "o", "l", "s", "/", "c", "a", "l", "l">>),
             Call(<<"s", "e", "a", "r", "c", "h", "_", "d", "o", "c", "u", "m", "e", "n", "t", "a", "t", "i", "o", "n">>,
                  <<[k |-> "query", v |-> Str(<<"o", "n", "x", " ", "=", "J", "a", "v", "a", "S", "c", "r", "i", "p", "t", ":", "a", "p", "p">>)],
                    [k |-> "sources", v |-> Arr(<<"electron", "react">>)]>>)),
     Request(Str(<<"2", ".", "0">>), NumOf(6), Str(<<"t", "o", "o", "l", "s", "/", "c", "a", "l", "l">>),
             Call(<<"g", "e", "t", "_", "a", "p", "i", "_", "r", "e", "f", "e", "r", "e", "n", "c", "e">>,
                  <<[k |-> "api_name", v |-> Str(<<"a", "p", "p">>)],
                    [k |-> "source", v |-> Str(<<"e", "l", "e", "c", "t", "r", "o", "n">>)]>>)),
     Request(Str(<<"2", ".", "0">>), NumOf(7), Str(<<"t", "o", "o", "l", "s", "/", "c", "a", "l", "l">>),
             Call(<<"f", "i", "n", "d", "_", "e", "x", "a", "m", "p", "l", "e", "s">>,
                  <<[k |-> "sources", v |-> Arr(<<"electron", "react">>)],
                    [k |-> "topic", v |-> Str(<<"a", "p", "p">>)]>>)),
     Request(Str(<<"2", ".", "0">>), NumOf(8), Str(<<"t", "o", "o", "l", "s", "/", "c", "a", "l", "l">>),
             Call(<<"g", "e", "t", "_", "m", "i", "g", "r", "a", "t", "i", "o", "n", "_", "g", "u", "i", "d", "e">>,
                  <<[k |-> "from_version", v |-> Str(<<"1">>)],
                    [k |-> "source", v |-> Str(<<"r", "e", "a", "c", "t">>)],
                    [k |-> "to_version", v |-> Str(<<"2">>)]>>))}

\* the sessionId parameters of the POSTs: none, a connection's id, an id no
\* connection has
SessionIds == {<<>>} \cup {<<n>> : n \in 1..(MaxStreams + 1)}

\* the server is listening and no client has connected
InitHttp ==
    /\ CacheInit
    /\ fpIn = <<>>
    /\ fpOut = <<>>
    /\ env \in HttpEnvs
    /\ ToolsIdle

\* GET /mcp: a client opens an SSE stream; startHttp resolves without waiting
\* for the network, so the registration follows in the same turn
OpenStream ==
    /\ up
    /\ ~stopping
    /\ Len(streams) < MaxStreams
    /\ With(NewSessionId(streams), LAMBDA sessionId :
           /\ streams' = Append(streams, [sessionId |-> sessionId, open |-> TRUE])
           /\ activeTransports' = MapSet(activeTransports, sessionId, Len(streams) + 1))
    /\ UNCHANGED <<now, up, inst, memoryCache, disk, nextSweep, last, written, ops>>
    /\ UNCHANGED <<fpIn, fpOut, env, tlast, prev, calls, scrapeCalls, posts, stopping, closing, pureVars>>

\* the client of connection i disconnects: the transport runs its onclose
CloseStream(i) ==
    /\ up
    /\ streams[i].open
    /\ streams' = [streams EXCEPT ![i].open = FALSE]
    /\ activeTransports' = MapDelete(activeTransports, streams[i].sessionId)
    /\ UNCHANGED <<now, up, inst, memoryCache, disk, nextSweep, last, written, ops>>
    /\ UNCHANGED <<fpIn, fpOut, env, tlast, prev, calls, scrapeCalls, posts, stopping, closing, pureVars>>

\* the entry a Map iterator that skips the entry behind a deleted one would
\* visit next: the second of the remaining ones once an entry has been visited
MapNextSkipping(map, visited) ==
    LET cursor == IF visited = <<>> THEN 0 ELSE visited[Len(visited)]
        ahead == {k \in DOMAIN map : k > cursor}
        first == IF ahead = {} THEN 0 ELSE CHOOSE k \in ahead : \A m \in ahead : k <= m
    IN  IF visited = <<>> \/ first = 0 THEN first
        ELSE IF ahead \ {first} = {} THEN 0
        ELSE CHOOSE k \in ahead \ {first} : \A m \in ahead \ {first} : k <= m

\* the entry the iterator of activeTransports.values() visits next, 0 when it
\* is done: the entries are visited in the order of their insertion, which is
\* the order of the session ids, and neither an entry deleted before it was
\* reached nor the deletion of the entry just visited disturbs the others
MapNext(map, visited) ==
    LET cursor == IF visited = <<>> THEN 0 ELSE visited[Len(visited)]
        ahead == {k \in DOMAIN map : k > cursor}
    IN  IF ahead = {} THEN 0 ELSE CHOOSE k \in ahead : \A m \in ahead : k <= m

\* SIGINT or SIGTERM: httpServer.close(), after which no connection is
\* accepted, and the loop over activeTransports.values() begins
Shutdown ==
    /\ up
    /\ ~stopping
    /\ stopping' = TRUE
    /\ closing' = <<>>
    /\ UNCHANGED <<now, up, inst, memoryCache, disk, nextSweep, last, written, ops>>
    /\ UNCHANGED <<fpIn, fpOut, env, tlast, prev, calls, scrapeCalls, streams,
                   activeTransports, posts, pureVars>>

\* one turn of the loop, up to its await: transport.close() of the next entry,
\* whose onclose deletes the entry from the Map being iterated
CloseNext ==
    /\ up
    /\ stopping
    /\ With(MapNext(activeTransports, closing), LAMBDA sessionId :
           /\ sessionId # 0
           /\ streams' = [i \in 1..Len(streams) |->
                            IF streams[i].sessionId = sessionId
                            THEN [streams[i] EXCEPT !.open = FALSE] ELSE streams[i]]
           /\ activeTransports' = MapDelete(activeTransports, sessionId)
           /\ closing' = Append(closing, sessionId))
    /\ UNCHANGED <<now, up, inst, memoryCache, disk, nextSweep, last, written, ops>>
    /\ UNCHANGED <<fpIn, fpOut, env, tlast, prev, calls, scrapeCalls, posts, stopping, pureVars>>

\* the rest of the signal handler once the loop has ended: mcpServer.stop() and
\* process.exit(0)
Exit ==
    /\ stopping
    /\ MapNext(activeTransports, closing) = 0
    /\ Stop({})

\* POST /mcp arrives: the session lookup, then the listeners for the body.
\* The record keeps what was true of the session's stream at that moment.
PostArrives(sessionId, body) ==
    /\ up
    /\ Len(posts) < MaxPosts
    /\ With(sessionLookup(sessionId, activeTransports), LAMBDA status :
           posts' = Append(posts,
               [sessionId |-> sessionId, body |-> body,
                stage |-> IF status = 0 THEN "reading" ELSE "done",
                status |-> status, response |-> <<>>, pending |-> <<>>, invoked |-> "",
                cacheChanged |-> FALSE,
                wasOpen |-> \E i \in 1..Len(streams) :
                               <<streams[i].sessionId>> = sessionId /\ streams[i].open,
                wasClosed |-> \E i \in 1..Len(streams) :
                               <<streams[i].sessionId>> = sessionId /\ ~streams[i].open,
                overlaps |-> {i \in 1..Len(posts) :
                               posts[i].sessionId = sessionId /\ posts[i].stage # "done"},
                after |-> {i \in 1..Len(posts) : posts[i].stage = "done"},
                orphan |-> FALSE, cached |-> FALSE, scrapes |-> <<>>]))
    /\ UNCHANGED <<now, up, inst, memoryCache, disk, nextSweep, last, written, ops>>
    /\ UNCHANGED <<fpIn, fpOut, env, tlast, prev, calls, scrapeCalls, streams,
                   activeTransports, stopping, closing, pureVars>>

\* the 'end' event of POST i: the body is parsed and checked; the request is
\* answered, or a tool is called and awaited
PostEnd(i) ==
    /\ up
    /\ posts[i].stage = "reading"
    /\ With(handleMessage(posts[i].body), LAMBDA h :
           posts' = [posts EXCEPT ![i] =
               IF h.answered
               THEN [@ EXCEPT !.stage = "done", !.status = 200, !.response = <<h.response>>]
               ELSE [@ EXCEPT !.stage = "tool", !.pending = <<h>>]])
    /\ UNCHANGED <<now, up, inst, memoryCache, disk, nextSweep, last, written, ops>>
    /\ UNCHANGED <<fpIn, fpOut, env, tlast, prev, calls, scrapeCalls, streams,
                   activeTransports, stopping, closing, pureVars>>

\* the tool call of POST i settles, with a call that would be dropped when its
\* session has closed
ToolSettlesCancelled(i, order) ==
    /\ up
    /\ posts[i].stage = "tool"
    /\ With(posts[i].pending[1], LAMBDA h :
       With(executeTool(h.tool, h.params, order, now, memoryCache, disk, env), LAMBDA r :
       With(\E k \in 1..Len(streams) :
                <<streams[k].sessionId>> = posts[i].sessionId /\ ~streams[k].open,
            LAMBDA closed :
           /\ memoryCache' = IF closed THEN memoryCache ELSE r.mem
           /\ disk' = IF closed THEN disk ELSE r.disk
           /\ posts' = [posts EXCEPT ![i] =
                  [@ EXCEPT !.stage = "done", !.status = 200, !.invoked = h.tool,
                            !.response = <<toolResponse(h.id, h.tool, h.params, r)>>,
                            !.cacheChanged = ~closed /\ <<r.mem, r.disk>> # <<memoryCache, disk>>,
                            !.orphan = closed,
                            !.cached = r.cached, !.scrapes = r.scrapes]])))
    /\ UNCHANGED <<now, up, inst, nextSweep, last, written, ops>>
    /\ UNCHANGED <<fpIn, fpOut, env, tlast, prev, calls, scrapeCalls, streams,
                   activeTransports, stopping, closing, pureVars>>

\* the tool POST i awaits settles, order being the order in which the scrapes
\* of its sources settle; the request is answered
ToolSettles(i, order) ==
    /\ up
    /\ posts[i].stage = "tool"
    /\ With(posts[i].pending[1], LAMBDA h :
       With(executeTool(h.tool, h.params, order, now, memoryCache, disk, env), LAMBDA r :
           /\ memoryCache' = r.mem
           /\ disk' = r.disk
           /\ posts' = [posts EXCEPT ![i] =
                  [@ EXCEPT !.stage = "done", !.status = 200, !.invoked = h.tool,
                            !.response = <<toolResponse(h.id, h.tool, h.params, r)>>,
                            !.cacheChanged = <<r.mem, r.disk>> # <<memoryCache, disk>>,
                            !.orphan = \E k \in 1..Len(streams) :
                                          /\ <<streams[k].sessionId>> = posts[i].sessionId
                                          /\ ~streams[k].open,
                            !.cached = r.cached, !.scrapes = r.scrapes]]))
    /\ UNCHANGED <<now, up, inst, nextSweep, last, written, ops>>
    /\ UNCHANGED <<fpIn, fpOut, env, tlast, prev, calls, scrapeCalls, streams,
                   activeTransports, stopping, closing, pureVars>>

NextHttp ==
    \/ OpenStream
    \/ \E i \in 1..Len(streams) : CloseStream(i)
    \/ Shutdown
    \/ CloseNext
    \/ Exit
    \/ \E sessionId \in SessionIds :
         \E body \in IF sessionLookup(sessionId, activeTransports) = 0 THEN Bodies
                     ELSE {[kind |-> "text"]} :
           PostArrives(sessionId, body)
    \/ \E i \in 1..Len(posts) : PostEnd(i)
    \/ \E i \in 1..Len(posts) :
         \E order \in Orders(IF posts[i].stage = "tool"
                             THEN Awaited(posts[i].pending[1].tool, posts[i].pending[1].params)
                             ELSE 0) :
           ToolSettles(i, order)

SpecHttp == InitHttp /\ [][NextHttp]_vars

(***************************************************************************)
(* Properties of the HTTP front end.                                       *)
(***************************************************************************)
\* the POSTs that have been answered with a JSON-RPC response
Responded == {i \in 1..Len(posts) : posts[i].stage = "done" /\ posts[i].response # <<>>}

\* the body of POST i is a JSON-RPC request object
IsRequest(i) == posts[i].body.kind = "json" /\ posts[i].body.v # Null

\* the id of the request, undefined when it has none
RequestId(i) == IF IsRequest(i) THEN Field(posts[i].body.v, "id") ELSE Undefined

\* the arguments of the tools/call request of POST i
Arguments(i) == Field(Field(posts[i].body.v, "params"), "arguments")

\* C13: search_documentation applies a limit that defaults to 10: a call
\* over HTTP whose arguments carry no limit is answered with at most 10
\* entries.
SearchDefaultLimit ==
    \A i \in Responded :
        (/\ posts[i].invoked = "search_documentation"
         /\ posts[i].response[1].result # <<>>
         /\ Field(Arguments(i), "limit") = Undefined)
        => Len(posts[i].response[1].result[1].entries) <= DefaultLimit

\* C14: a POST that bears the id of a session whose stream had closed when
\* it arrived is answered 404 and goes no further; a POST that bears the id
\* of a session whose stream was open is accepted.
ClosedSessionNotFound ==
    \A i \in 1..Len(posts) :
        /\ posts[i].wasClosed =>
             /\ posts[i].status = 404
             /\ posts[i].stage = "done"
             /\ posts[i].response = <<>>
             /\ posts[i].pending = <<>>
             /\ posts[i].invoked = ""
        /\ posts[i].wasOpen => posts[i].status \in {0, 200}

\* a session took a request while its stream was open, and a later POST with
\* its id, after the stream closed, was answered 404
PostAfterClose ==
    \E i, j \in 1..Len(posts) :
        /\ i < j
        /\ posts[i].sessionId = posts[j].sessionId
        /\ posts[i].wasOpen /\ posts[i].status = 200
        /\ posts[j].wasClosed /\ posts[j].status = 404

LoneResponses(i) ==
    With(handleMessage(posts[i].body), LAMBDA h :
        IF h.answered THEN {h.response}
        ELSE {toolResponse(h.id, h.tool, h.params,
                           executeTool(h.tool, h.params, order, now, Empty, Empty, env)) :
                order \in Orders(Awaited(h.tool, h.params))})

\* POSTs i and j bore the same sessionId, and one arrived while the other was
\* not yet answered
Concurrent(i, j) == i # j /\ (i \in posts[j].overlaps \/ j \in posts[i].overlaps)

\* the response to a request depends on the request, the cache and the
\* sources only
ResponseIndependent ==
    \A i \in Responded : posts[i].response[1] \in LoneResponses(i)

\* C17: of requests posted concurrently on one session, each one that
\* carries an id is answered with its own id, and with a response it would
\* also get alone.
ConcurrentOwnResponse ==
    \A i \in Responded :
        ((\E j \in 1..Len(posts) : Concurrent(i, j)) /\ RequestId(i) # Undefined)
        => /\ posts[i].response[1].id = <<RequestId(i)>>
           /\ posts[i].response[1] \in LoneResponses(i)

\* C18: an error response carries the id of its request, and null when the
\* request has no id or its body could not be parsed.
ErrorCarriesRequestId ==
    \A i \in Responded :
        posts[i].response[1].error # <<>>
        => posts[i].response[1].id =
             (IF RequestId(i) = Undefined THEN <<Null>> ELSE <<RequestId(i)>>)

\* the required properties of the inputSchema of each tool
Required(name) ==
    CASE name = Str(<<"s", "e", "a", "r", "c", "h", "_", "d", "o", "c", "u", "m", "e", "n", "t", "a", "t", "i", "o", "n">>) -> {"query"}
      [] name = Str(<<"g", "e", "t", "_", "a", "p", "i", "_", "r", "e", "f", "e", "r", "e", "n", "c", "e">>) -> {"api_name", "source"}
      [] name = Str(<<"f", "i", "n", "d", "_", "e", "x", "a", "m", "p", "l", "e", "s">>) -> {"topic"}
      [] name = Str(<<"g", "e", "t", "_", "m", "i", "g", "r", "a", "t", "i", "o", "n", "_", "g", "u", "i", "d", "e">>) -> {"from_version", "to_version", "source"}

\* the error code of the first check the request fails, 0 if it passes all
FirstFailing(request) ==
    IF Field(request, "jsonrpc") # Str(<<"2", ".", "0">>) THEN -32600
    ELSE IF Field(request, "method") \notin
              {Str(<<"i", "n", "i", "t", "i", "a", "l", "i", "z", "e">>), Str(<<"t", "o", "o", "l", "s", "/", "l", "i", "s", "t">>), Str(<<"t", "o", "o", "l", "s", "/", "c", "a", "l", "l">>)} THEN -32601
    ELSE IF Field(request, "method") = Str(<<"i", "n", "i", "t", "i", "a", "l", "i", "z", "e">>)
    THEN IF Field(Field(request, "params"), "protocolVersion") = Undefined THEN -32602 ELSE 0
    ELSE IF Field(request, "method") = Str(<<"t", "o", "o", "l", "s", "/", "l", "i", "s", "t">>) THEN 0
    ELSE IF Field(Field(request, "params"), "name") \notin validTools THEN -32602
    ELSE IF \E r \in Required(Field(Field(request, "params"), "name")) :
              Field(Field(Field(request, "params"), "arguments"), r) = Undefined
    THEN -32602 ELSE 0

\* C19: a request is answered with the error of the first check it fails,
\* the envelope before the method before the parameters; such a request
\* calls no tool and leaves the cache as it was.
FirstFailingCheck ==
    \A i \in Responded :
        (IsRequest(i) /\ FirstFailing(posts[i].body.v) # 0)
        => /\ posts[i].response[1].error # <<>>
           /\ posts[i].response[1].error[1].code = FirstFailing(posts[i].body.v)
           /\ posts[i].invoked = ""
           /\ ~posts[i].cacheChanged

\* a request with neither a valid envelope nor a known method was answered
\* "Invalid Request", on a server whose cache holds an earlier result
EnvelopeFirst ==
    \E i \in Responded :
        /\ IsRequest(i)
        /\ Field(posts[i].body.v, "jsonrpc") # Str(<<"2", ".", "0">>)
        /\ Field(posts[i].body.v, "method") = Str(<<"n", "o", "p", "e">>)
        /\ posts[i].response[1].error[1].code = -32600
        /\ memoryCache # Empty

(***************************************************************************)
(* BaseScraper.validateUrl on URLs of every kind of host.                  *)
(***************************************************************************)
\* the hostnames new URL(...) gives for the URLs of the model: names and
\* addresses, IPv6 addresses in brackets
UrlHosts ==
    {<<"e", ".", "o", "r", "g">>, <<"l", "o", "c", "a", "l", "h", "o", "s", "t">>, <<"1", "2", "7", ".", "0", ".", "0", ".", "1">>, <<"1", "2", "7", ".", "0", ".", "0", ".", "2">>, <<"1", "2", "7", ".", "2", "5", "5", ".", "0", ".", "1">>, <<"[", ":", ":", "1", "]">>,
     <<"[", ":", ":", "]">>, <<"0", ".", "0", ".", "0", ".", "0">>, <<"1", "0", ".", "1", ".", "2", ".", "3">>, <<"1", "7", "2", ".", "1", "6", ".", "0", ".", "1">>, <<"1", "7", "2", ".", "3", "1", ".", "9", ".", "9">>, <<"1", "7", "2", ".", "1", "5", ".", "0", ".", "1">>,
     <<"1", "7", "2", ".", "3", "2", ".", "0", ".", "1">>, <<"1", "9", "2", ".", "1", "6", "8", ".", "1", ".", "1">>, <<"1", "9", "2", ".", "1", "6", "9", ".", "1", ".", "1">>, <<"1", "0", "0", ".", "1", ".", "1", ".", "1">>}

\* the URLs handed to fetchHtml: absolute ones, and a path relative to the
\* base URL
Urls ==
    {[abs |-> TRUE, protocol |-> p, host |-> h,
      path |-> [kind |-> "root", ver |-> <<>>, name |-> <<>>]] :
        p \in {"http:", "https:", "ftp:", "file:"}, h \in UrlHosts}
    \cup {Rel("root", <<>>, <<>>)}

\* the base URLs of the scraper
UrlBases ==
    {PublicBase("electron"), LocalBase, [PublicBase("electron") EXCEPT !.host = <<"1", "2", "7", ".", "0", ".", "0", ".", "2">>]}

\* a scraper is about to fetch a URL
InitUrl ==
    /\ CacheInit
    /\ fpIn = <<>>
    /\ fpOut = <<>>
    /\ env = <<>>
    /\ tlast = <<>>
    /\ prev = <<>>
    /\ calls = 0
    /\ scrapeCalls = <<>>
    /\ streams = <<>>
    /\ activeTransports = <<>>
    /\ posts = <<>>
    /\ stopping = FALSE
    /\ closing = <<>>
    /\ rank = <<>>
    /\ pace = <<>>
    /\ bind = <<>>
    /\ tasks = <<>>
    /\ urlCheck \in [url : Urls, base : UrlBases, out : {<<>>}]

\* fetchHtml(url): validateUrl, then axiosInstance.get
FetchHtml ==
    /\ urlCheck.out = <<>>
    /\ urlCheck' = [urlCheck EXCEPT !.out = <<fetchHtml(urlCheck.url, "up", urlCheck.base)>>]
    /\ UNCHANGED <<now, up, inst, memoryCache, disk, nextSweep, last, written, ops>>
    /\ UNCHANGED <<fpIn, fpOut, env, tlast, prev, calls, scrapeCalls, frontVars, rank, pace, bind, tasks>>

NextUrl == FetchHtml

SpecUrl == InitUrl /\ [][NextUrl]_vars

\* the four numbers of a dotted IPv4 address, <<>> for any other hostname
Octets(hostname) ==
    With(SplitClass(hostname, {"."}, <<>>), LAMBDA parts :
        IF Len(parts) = 4 /\ \A i \in 1..4 : parts[i] # <<>> /\ RunOf(parts[i], {Digits[d] : d \in 1..10}) = Len(parts[i])
        THEN [i \in 1..4 |-> ParseInt(parts[i])] ELSE <<>>)

\* the host is loopback, in a private range, localhost or a meta-address
ForbiddenHost(hostname) ==
    \/ hostname \in {<<"l", "o", "c", "a", "l", "h", "o", "s", "t">>, <<"[", ":", ":", "1", "]">>, <<"[", ":", ":", "]">>}
    \/ With(Octets(hostname), LAMBDA o :
           /\ o # <<>>
           /\ \/ o[1] = 127
              \/ o[1] = 10
              \/ (o[1] = 172 /\ o[2] \in 16..31)
              \/ (o[1] = 192 /\ o[2] = 168)
              \/ o = <<0, 0, 0, 0>>)

\* the URL the request would go to
Target == ResolveUrl(urlCheck.url, urlCheck.base)

\* C20: a URL whose scheme is not http or https, or whose host is loopback
\* (127.0.0.0/8, ::1), private (10/8, 172.16/12, 192.168/16), localhost or
\* a meta-address (0.0.0.0, ::), is rejected and never requested.
UnsafeUrlRejected ==
    (/\ urlCheck # <<>>
     /\ urlCheck.out # <<>>
     /\ (Target.protocol \notin {"http:", "https:"} \/ ForbiddenHost(ToLower(Target.host))))
    => (~urlCheck.out[1].ok /\ urlCheck.out[1].fetched = <<>>)

\* the hosts validateUrl compares with, and every other scheme, are rejected
\* and never requested
ListedUrlRejected ==
    (/\ urlCheck # <<>>
     /\ urlCheck.out # <<>>
     /\ \/ Target.protocol \notin {"http:", "https:"}
        \/ (ForbiddenHost(ToLower(Target.host))
            /\ ToLower(Target.host) \notin {<<"1", "2", "7", ".", "0", ".", "0", ".", "2">>, <<"1", "2", "7", ".", "2", "5", "5", ".", "0", ".", "1">>, <<"[", ":", ":", "1", "]">>}))
    => (~urlCheck.out[1].ok /\ urlCheck.out[1].fetched = <<>>)

\* a URL on a public host is requested
PublicUrlFetched ==
    /\ urlCheck # <<>>
    /\ urlCheck.out # <<>>
    /\ ~ForbiddenHost(ToLower(Target.host))
    /\ urlCheck.out[1].fetched = <<Target>>

(***************************************************************************)
(* The URL guard before every request of a scraper.                        *)
(***************************************************************************)
\* the scrape calls that have settled
SettledScrapes == {i \in 1..Len(scrapeCalls) : scrapeCalls[i].result # <<>>}

Tools == {"search", "reference", "examples", "migration"}

\* RATE_LIMIT_PER_MINUTE: the default, a faster setting, and 0 for a value
\* that configures no limiter (config.rateLimit is falsy)
DefaultRateLimit == 60
RateLimits == {0, DefaultRateLimit, 120}

\* the clock advances in steps of this many ms
PaceTickMs == 500

\* Date.now() when the server starts, far from the epoch
PaceStart == 60000

MaxPaceTicks == 4
MaxRequests == 3

\* const minDelay = 60000 / config.rateLimit
minDelay(rateLimit) == 60000 \div rateLimit

\* the sources the requests of the model go to
PacedSources == {"electron", "node"}

\* the scrapers are constructed: let lastRequestTime = 0 in each
InitPace ==
    /\ CacheInit
    /\ fpIn = <<>>
    /\ fpOut = <<>>
    /\ env = <<>>
    /\ tlast = <<>>
    /\ prev = <<>>
    /\ calls = 0
    /\ scrapeCalls = <<>>
    /\ streams = <<>>
    /\ activeTransports = <<>>
    /\ posts = <<>>
    /\ stopping = FALSE
    /\ closing = <<>>
    /\ rank = <<>>
    /\ urlCheck = <<>>
    /\ bind = <<>>
    /\ tasks = <<>>
    /\ \E rateLimit \in RateLimits :
         pace = [clock |-> PaceStart, rateLimit |-> rateLimit,
                 lastRequestTime |-> [scraper \in Tools \X PacedSources |-> 0],
                 requests |-> <<>>]

\* a request of the scraper of a tool enters the interceptor: it is
\* dispatched at once, or waits for a timer
EnterInterceptor(tool, source) ==
    /\ Len(pace.requests) < MaxRequests
    /\ With(pace.clock - pace.lastRequestTime[<<tool, source>>], LAMBDA timeSinceLastRequest :
           IF pace.rateLimit # 0 /\ timeSinceLastRequest < minDelay(pace.rateLimit)
           THEN pace' = [pace EXCEPT !.requests = Append(@,
                    [tool |-> tool, source |-> source,
                     waiting |-> {k \in 1..Len(pace.requests) :
                                    /\ pace.requests[k].tool = tool
                                    /\ pace.requests[k].source = source
                                    /\ pace.requests[k].sent = <<>>},
                     wake |-> pace.clock + (minDelay(pace.rateLimit) - timeSinceLastRequest),
                     sent |-> <<>>])]
           ELSE pace' = [pace EXCEPT
                    !.lastRequestTime[<<tool, source>>] =
                        IF pace.rateLimit # 0 THEN pace.clock ELSE @,
                    !.requests = Append(@,
                        [tool |-> tool, source |-> source,
                     waiting |-> {k \in 1..Len(pace.requests) :
                                    /\ pace.requests[k].tool = tool
                                    /\ pace.requests[k].source = source
                                    /\ pace.requests[k].sent = <<>>},
                         wake |-> pace.clock, sent |-> <<pace.clock>>])])
    /\ UNCHANGED <<now, up, inst, memoryCache, disk, nextSweep, last, written, ops>>
    /\ UNCHANGED <<fpIn, fpOut, env, tlast, prev, calls, scrapeCalls, frontVars, rank, urlCheck, bind, tasks>>

\* the timer of a waiting request fires: lastRequestTime = Date.now(), and
\* the request is dispatched
TimerFires(i) ==
    /\ pace.requests[i].sent = <<>>
    /\ pace.clock >= pace.requests[i].wake
    /\ pace' = [pace EXCEPT
           !.lastRequestTime[<<pace.requests[i].tool, pace.requests[i].source>>] = pace.clock,
           !.requests[i].sent = <<pace.clock>>]
    /\ UNCHANGED <<now, up, inst, memoryCache, disk, nextSweep, last, written, ops>>
    /\ UNCHANGED <<fpIn, fpOut, env, tlast, prev, calls, scrapeCalls, frontVars, rank, urlCheck, bind, tasks>>

\* time passes
PaceTick ==
    /\ pace.clock < PaceStart + MaxPaceTicks * PaceTickMs
    /\ pace' = [pace EXCEPT !.clock = @ + PaceTickMs]
    /\ UNCHANGED <<now, up, inst, memoryCache, disk, nextSweep, last, written, ops>>
    /\ UNCHANGED <<fpIn, fpOut, env, tlast, prev, calls, scrapeCalls, frontVars, rank, urlCheck, bind, tasks>>

NextPace ==
    \/ \E tool \in Tools, source \in PacedSources : EnterInterceptor(tool, source)
    \/ \E i \in 1..Len(pace.requests) : TimerFires(i)
    \/ PaceTick

SpecPace == InitPace /\ [][NextPace]_vars

\* the requests that have been dispatched
Dispatched == {i \in 1..Len(pace.requests) : pace.requests[i].sent # <<>>}

\* requests i and j were dispatched at least minDelay apart
Apart(i, j) ==
    \/ pace.requests[i].sent[1] - pace.requests[j].sent[1] >= minDelay(pace.rateLimit)
    \/ pace.requests[j].sent[1] - pace.requests[i].sent[1] >= minDelay(pace.rateLimit)

\* C22: with a rate limit configured, any two requests of a scraper to its
\* source are dispatched at least 60000/R ms apart, however the callers
\* interleave.
PacedPerScraper ==
    \A i, j \in Dispatched :
        (/\ i # j
         /\ pace.rateLimit # 0
         /\ pace.requests[i].tool = pace.requests[j].tool
         /\ pace.requests[i].source = pace.requests[j].source)
        => Apart(i, j)

\* requests of one scraper of which each enters the interceptor when none
\* of the scraper's earlier requests is still waiting are paced
SequentialPaced ==
    \A i, j \in Dispatched :
        (/\ i # j
         /\ pace.rateLimit # 0
         /\ pace.requests[i].tool = pace.requests[j].tool
         /\ pace.requests[i].source = pace.requests[j].source
         /\ \A k \in 1..Len(pace.requests) :
              (/\ pace.requests[k].tool = pace.requests[j].tool
               /\ pace.requests[k].source = pace.requests[j].source)
              => pace.requests[k].waiting = {})
        => Apart(i, j)

\* C23: the last-call time of a source is shared by all its callers:
\* requests to one source through different tools are dispatched at least
\* 60000/R ms apart.
PacedAcrossTools ==
    \A i, j \in Dispatched :
        (/\ i # j
         /\ pace.rateLimit # 0
         /\ pace.requests[i].tool # pace.requests[j].tool
         /\ pace.requests[i].source = pace.requests[j].source)
        => Apart(i, j)

(***************************************************************************)
(* The hourly sweep, delete and clear of the cache.                        *)
(***************************************************************************)
\* the step is a run of the setInterval callback of the running instance
SweepStep == up /\ up' /\ nextSweep' # nextSweep

\* C24: the sweep removes a file only when the age of its entry exceeds the
\* entry's own ttl: an entry stored with a ttl longer than the default is
\* not removed before its own ttl has elapsed.
SweepRespectsOwnTtl ==
    [][SweepStep =>
         \A f \in DOMAIN disk :
             f \notin DOMAIN disk' => now - disk[f].timestamp > disk[f].ttl * 1000]_vars

\* the sweep removes a file only when the age of its entry exceeds the
\* default ttl, and changes nothing but the files
SweepUsesDefaultTtl ==
    [][SweepStep =>
         /\ \A f \in DOMAIN disk :
              f \notin DOMAIN disk' => now - disk[f].timestamp > DefaultTTL * 1000
         /\ \A f \in DOMAIN disk' : f \in DOMAIN disk /\ disk'[f] = disk[f]
         /\ UNCHANGED <<memoryCache, last, ops>>]_vars

\* the step is a get that follows a delete of the same key, or a clear,
\* with no other cache operation between them
GetAfterRemoval ==
    /\ last.op \in {"delete", "clear"}
    /\ last'.op = "get"
    /\ last.op = "delete" => last'.key = last.key

Orphaned(i) == posts[i].stage = "done" /\ posts[i].invoked # "" /\ posts[i].orphan

\* POST j arrived after POST i was answered and called the same tool with
\* the same arguments from another session
LaterIdentical(i, j) ==
    /\ i \in posts[j].after
    /\ posts[j].stage = "done"
    /\ posts[j].invoked # ""
    /\ posts[j].sessionId # posts[i].sessionId
    /\ posts[j].pending[1].tool = posts[i].pending[1].tool
    /\ posts[j].pending[1].params = posts[i].pending[1].params

GaveResult(i) ==
    /\ posts[i].response[1].result # <<>>
    /\ posts[i].response[1].result[1].kind # "none"

ClosesOnly(i) ==
    /\ streams[i].open
    /\ ~streams'[i].open
    /\ UNCHANGED <<stopping, closing>>

\* C27: closing one session removes that session's entry from the registry
\* and changes nothing else: both tiers of the cache, every other stream,
\* every other registry entry and every request stay as they were.
CloseChangesOwnEntryOnly ==
    [][\A i \in 1..Len(streams) :
          ClosesOnly(i) =>
              /\ UNCHANGED <<memoryCache, disk, posts>>
              /\ Len(streams') = Len(streams)
              /\ \A k \in 1..Len(streams) : k # i => streams'[k] = streams[k]
              /\ DOMAIN activeTransports' = DOMAIN activeTransports \ {streams[i].sessionId}
              /\ \A id \in DOMAIN activeTransports' :
                   activeTransports'[id] = activeTransports[id]]_vars

\* a session whose call had filled the cache was closed while another session
\* stayed open and registered
ClosedBesideOpen ==
    \E i \in 1..Len(posts) : \E a, k \in 1..Len(streams) :
        /\ ~stopping
        /\ posts[i].stage = "done"
        /\ posts[i].cacheChanged
        /\ ~posts[i].orphan
        /\ <<streams[a].sessionId>> = posts[i].sessionId
        /\ ~streams[a].open
        /\ streams[k].open
        /\ streams[k].sessionId \in DOMAIN activeTransports
        /\ memoryCache # Empty

(***************************************************************************)
(* The stdio binding (CallTool handler) beside the HTTP binding.           *)
(***************************************************************************)
ToolNames == {"search_documentation", "get_api_reference", "find_examples",
              "get_migration_guide"}

\* the name of a tool as a JSON string
ToolString(tool) ==
    CASE tool = "search_documentation" -> <<"s", "e", "a", "r", "c", "h", "_", "d", "o", "c", "u", "m", "e", "n", "t", "a", "t", "i", "o", "n">>
      [] tool = "get_api_reference" -> <<"g", "e", "t", "_", "a", "p", "i", "_", "r", "e", "f", "e", "r", "e", "n", "c", "e">>
      [] tool = "find_examples" -> <<"f", "i", "n", "d", "_", "e", "x", "a", "m", "p", "l", "e", "s">>
      [] tool = "get_migration_guide" -> <<"g", "e", "t", "_", "m", "i", "g", "r", "a", "t", "i", "o", "n", "_", "g", "u", "i", "d", "e">>

SourceEnum == {<<"e", "l", "e", "c", "t", "r", "o", "n">>, <<"r", "e", "a", "c", "t">>, <<"n", "o", "d", "e">>, <<"g", "i", "t", "h", "u", "b">>}

\* an optional key of a zod object: absent, or accepted by the inner schema
ZodOptional(v, accepted) == v = Undefined \/ accepted

\* z.array(z.enum([...the four sources])); the elements of the model's arrays
\* are source names
ZodSources(v) == v.t = "array" /\ \A i \in 1..Len(v.a) : v.a[i] \in DOMAIN AllUp

\* z.number().min(lo).max(hi).default(dflt): the parsed value, Undefined when
\* the value is rejected
ZodLimit(v, lo, hi, dflt) ==
    IF v = Undefined THEN NumOf(dflt)
    ELSE IF v.t = "number" /\ v.n >= lo /\ v.n <= hi THEN v
    ELSE Undefined

\* schema.parse(args) of the tool's schema: unknown keys are stripped, the
\* default of limit is filled in; ok = FALSE when it throws a ZodError
SchemaParse(tool, args) ==
    IF args.t # "object" THEN [ok |-> FALSE, params |-> <<>>]
    ELSE CASE tool = "search_documentation" ->
                [ok |-> /\ IsString(Field(args, "query"))
                        /\ Len(Field(args, "query").s) >= 1
                        /\ ZodOptional(Field(args, "sources"), ZodSources(Field(args, "sources")))
                        /\ ZodOptional(Field(args, "type"),
                               /\ IsString(Field(args, "type"))
                               /\ Field(args, "type").s \in
                                    {<<"a", "p", "i">>, <<"g", "u", "i", "d", "e">>, <<"e", "x", "a", "m", "p", "l", "e">>, <<"m", "i", "g", "r", "a", "t", "i", "o", "n">>})
                        /\ ZodLimit(Field(args, "limit"), 1, 100, DefaultLimit) # Undefined,
                 params |-> Params(<<[k |-> "query", v |-> Field(args, "query")],
                                     [k |-> "sources", v |-> Field(args, "sources")],
                                     [k |-> "type", v |-> Field(args, "type")],
                                     [k |-> "limit",
                                      v |-> ZodLimit(Field(args, "limit"), 1, 100,
                                                     DefaultLimit)]>>)]
           [] tool = "get_api_reference" ->
                [ok |-> /\ IsString(Field(args, "apiName"))
                        /\ Len(Field(args, "apiName").s) >= 1
                        /\ IsString(Field(args, "source"))
                        /\ Field(args, "source").s \in SourceEnum
                        /\ ZodOptional(Field(args, "version"), IsString(Field(args, "version"))),
                 params |-> Params(<<[k |-> "apiName", v |-> Field(args, "apiName")],
                                     [k |-> "source", v |-> Field(args, "source")],
                                     [k |-> "version", v |-> Field(args, "version")]>>)]
           [] tool = "find_examples" ->
                [ok |-> /\ IsString(Field(args, "topic"))
                        /\ Len(Field(args, "topic").s) >= 1
                        /\ ZodOptional(Field(args, "sources"), ZodSources(Field(args, "sources")))
                        /\ ZodOptional(Field(args, "language"),
                               /\ IsString(Field(args, "language"))
                               /\ Field(args, "language").s \in
                                    {<<"j", "a", "v", "a", "s", "c", "r", "i", "p", "t">>, <<"t", "y", "p", "e", "s", "c", "r", "i", "p", "t">>, <<"j", "s", "x">>, <<"t", "s", "x">>})
                        /\ ZodLimit(Field(args, "limit"), 1, 50, DefaultExamplesLimit) # Undefined,
                 params |-> Params(<<[k |-> "topic", v |-> Field(args, "topic")],
                                     [k |-> "sources", v |-> Field(args, "sources")],
                                     [k |-> "language", v |-> Field(args, "language")],
                                     [k |-> "limit",
                                      v |-> ZodLimit(Field(args, "limit"), 1, 50,
                                                     DefaultExamplesLimit)]>>)]
           [] tool = "get_migration_guide" ->
                [ok |-> /\ IsString(Field(args, "source"))
                        /\ Field(args, "source").s \in SourceEnum
                        /\ IsString(Field(args, "fromVersion"))
                        /\ IsString(Field(args, "toVersion")),
                 params |-> Params(<<[k |-> "source", v |-> Field(args, "source")],
                                     [k |-> "fromVersion", v |-> Field(args, "fromVersion")],
                                     [k |-> "toVersion", v |-> Field(args, "toVersion")]>>)]

\* validateSearchParams(params): TRUE when it throws; the queries of the
\* model are shorter than its 1000 characters
validateSearchParamsThrows(params) ==
    \/ Includes(Prop(params, "query").s, <<"<", "s", "c", "r", "i", "p", "t", ">">>)
    \/ Includes(Prop(params, "query").s, <<"j", "a", "v", "a", "s", "c", "r", "i", "p", "t", ":">>)

\* an Error object: the name of its constructor and its message
ErrorOf(name, message) == [name |-> name, message |-> message]

\* the Error a tool throws: `Scraper not configured for source: ${source}` of
\* getApiReference and getMigrationGuide, the TypeError of rankExamples
ThrownBy(tool, params) ==
    IF tool = "find_examples"
    THEN ErrorOf("TypeError", "topic.toLowerCase is not a function")
    ELSE ErrorOf("Error",
             CASE SourceId(Prop(params, "source").s) = "electron" ->
                    "Scraper not configured for source: electron"
               [] SourceId(Prop(params, "source").s) = "react" ->
                    "Scraper not configured for source: react"
               [] SourceId(Prop(params, "source").s) = "node" ->
                    "Scraper not configured for source: node"
               [] SourceId(Prop(params, "source").s) = "github" ->
                    "Scraper not configured for source: github")

\* isUserFacingError, with a handler that would show every error
isUserFacingErrorAlways(error) == TRUE

\* isUserFacingError(error) for an error that is no McpError
isUserFacingError(error) == error.name \in {"ValidationError", "ScraperError"}

\* `Tool ${name} encountered an error. Please try again later.`
GenericMessage(tool) ==
    CASE tool = "search_documentation" ->
           "Tool search_documentation encountered an error. Please try again later."
      [] tool = "get_api_reference" ->
           "Tool get_api_reference encountered an error. Please try again later."
      [] tool = "find_examples" ->
           "Tool find_examples encountered an error. Please try again later."
      [] tool = "get_migration_guide" ->
           "Tool get_migration_guide encountered an error. Please try again later."

\* what a binding did with a call: the params it handed to the tool (none
\* when it did not call it), the error caught inside, the error returned,
\* the result of the tool and the cache it leaves
BindOutcome(handed, internal, error, r, mem, d) ==
    [handed |-> handed, internal |-> internal, error |-> error,
     result |-> IF r = <<>> THEN <<>> ELSE r[1].result,
     cached |-> r # <<>> /\ r[1].cached, mem |-> mem, disk |-> d]

\* the catch block of the CallTool handler for an error that is no McpError
CaughtByHandler(tool, handed, error, r, mem, d) ==
    BindOutcome(handed, <<error>>,
        <<[code |-> -32603,
           message |-> IF isUserFacingError(error) THEN error.message
                       ELSE GenericMessage(tool)]>>, r, mem, d)

\* the CallTool handler of the stdio binding for a tool of the server, at
\* time t
CallToolHandler(tool, args, order, t, mem, d, scrapers) ==
    With(SchemaParse(tool, args), LAMBDA p :
        IF ~p.ok
        THEN CaughtByHandler(tool, <<>>, ErrorOf("ZodError", "issues of the arguments"),
                             <<>>, mem, d)
        ELSE IF tool = "search_documentation" /\ validateSearchParamsThrows(p.params)
        THEN CaughtByHandler(tool, <<>>,
                 ErrorOf("Error", "Invalid characters in search query"), <<>>, mem, d)
        ELSE
    With(executeTool(tool, p.params, order, t, mem, d, scrapers), LAMBDA r :
        IF r.threw
        THEN CaughtByHandler(tool, <<p.params>>, ThrownBy(tool, p.params), <<r>>,
                             r.mem, r.disk)
        ELSE BindOutcome(<<p.params>>, <<>>, <<>>, <<r>>, r.mem, r.disk)))

\* the 'end' listener of POST /mcp for a tools/call request of a tool of the
\* server, at time t
PostToolsCall(tool, args, order, t, mem, d, scrapers) ==
    With(handleMessage(Request(Str(<<"2", ".", "0">>), NumOf(1), Str(<<"t", "o", "o", "l", "s", "/", "c", "a", "l", "l">>),
                               Call(ToolString(tool), args.p))), LAMBDA h :
        IF h.answered
        THEN BindOutcome(<<>>, <<>>, h.response.error, <<>>, mem, d)
        ELSE
    With(executeTool(h.tool, h.params, order, t, mem, d, scrapers), LAMBDA r :
        BindOutcome(<<h.params>>,
                    IF r.threw THEN <<ThrownBy(h.tool, h.params)>> ELSE <<>>,
                    toolResponse(h.id, h.tool, h.params, r).error, <<r>>, r.mem, r.disk)))

\* the name an argument has in the tools/call arguments of the HTTP binding
HttpName(k) ==
    CASE k = "apiName" -> "api_name"
      [] k = "fromVersion" -> "from_version"
      [] k = "toVersion" -> "to_version"
      [] OTHER -> k

\* the arguments of a request as a client of each binding sends them
StdioArgs(req) == Obj(req.args)
HttpArgs(req) == Obj([i \in 1..Len(req.args) |->
                        [k |-> HttpName(req.args[i].k), v |-> req.args[i].v]])

\* the tool calls of the model: with and without the optional arguments, for
\* sources that are configured or not, and with arguments a schema rejects
BindRequests ==
    {[tool |-> "search_documentation", args |-> <<[k |-> "query", v |-> Str(<<"a", "p", "p">>)]>>],
     [tool |-> "search_documentation",
      args |-> <<[k |-> "query", v |-> Str(<<"a", "p", "p">>)], [k |-> "sources", v |-> Arr(<<"node">>)],
                 [k |-> "type", v |-> Str(<<"a", "p", "i">>)], [k |-> "limit", v |-> NumOf(1)]>>],
     [tool |-> "search_documentation", args |-> <<[k |-> "query", v |-> Str(<<>>)]>>],
     [tool |-> "search_documentation",
      args |-> <<[k |-> "query", v |-> Str(<<"j", "a", "v", "a", "s", "c", "r", "i", "p", "t", ":", "a", "p", "p">>)],
                 [k |-> "sources", v |-> Arr(<<"node">>)]>>],
     [tool |-> "get_api_reference",
      args |-> <<[k |-> "apiName", v |-> Str(<<"a", "p", "p">>)], [k |-> "source", v |-> Str(<<"n", "o", "d", "e">>)]>>],
     [tool |-> "get_api_reference",
      args |-> <<[k |-> "apiName", v |-> Str(<<"a", "p", "p">>)],
                 [k |-> "source", v |-> Str(<<"e", "l", "e", "c", "t", "r", "o", "n">>)]>>],
     [tool |-> "get_api_reference",
      args |-> <<[k |-> "apiName", v |-> Str(<<"a", "p", "p">>)], [k |-> "source", v |-> Str(<<"n", "o", "d", "e">>)],
                 [k |-> "version", v |-> Str(<<"1">>)]>>],
     [tool |-> "find_examples",
      args |-> <<[k |-> "topic", v |-> Str(<<"a", "p", "p">>)], [k |-> "sources", v |-> Arr(<<"node">>)]>>],
     [tool |-> "find_examples",
      args |-> <<[k |-> "topic", v |-> Str(<<"a", "p", "p">>)], [k |-> "sources", v |-> Arr(<<"react">>)],
                 [k |-> "language", v |-> Str(<<"j", "s", "x">>)], [k |-> "limit", v |-> NumOf(1)]>>],
     [tool |-> "find_examples",
      args |-> <<[k |-> "topic", v |-> NumOf(5)], [k |-> "sources", v |-> Arr(<<"node">>)]>>],
     [tool |-> "get_migration_guide",
      args |-> <<[k |-> "source", v |-> Str(<<"e", "l", "e", "c", "t", "r", "o", "n">>)],
                 [k |-> "fromVersion", v |-> Str(<<"1">>)], [k |-> "toVersion", v |-> Str(<<"2">>)]>>],
     [tool |-> "get_migration_guide",
      args |-> <<[k |-> "source", v |-> Str(<<"r", "e", "a", "c", "t">>)],
                 [k |-> "fromVersion", v |-> Str(<<"1">>)], [k |-> "toVersion", v |-> Str(<<"2">>)]>>]}

\* the number of calls made through the bindings
MaxBindCalls == 2

\* the number of scrapes a call of the tool with these arguments awaits
\* together on the binding
BindAwaited(binding, req) ==
    IF req.tool \notin {"search_documentation", "find_examples"} THEN 0
    ELSE IF Truthy(Prop(req.args, "sources")) THEN Len(Prop(req.args, "sources").a)
    ELSE IF binding = "http" THEN Cardinality(Sources)
    ELSE Len(ScraperKeys(env))

InitBind ==
    /\ CacheInit
    /\ fpIn = <<>>
    /\ fpOut = <<>>
    /\ env \in HttpEnvs
    /\ ToolsIdle

\* the record of a call in bind
BindCall(binding, req, out) ==
    [binding |-> binding, req |-> req, handed |-> out.handed, internal |-> out.internal,
     error |-> out.error, result |-> out.result, cached |-> out.cached]

\* a CallTool request arrives on the stdio transport and is answered
StdioCall(req, order) ==
    /\ up
    /\ Len(bind) < MaxBindCalls
    /\ With(CallToolHandler(req.tool, StdioArgs(req), order, now, memoryCache, disk, env),
            LAMBDA out :
           /\ memoryCache' = out.mem
           /\ disk' = out.disk
           /\ bind' = Append(bind, BindCall("stdio", req, out)))
    /\ UNCHANGED <<now, up, inst, nextSweep, last, written, ops>>
    /\ UNCHANGED <<fpIn, fpOut, env, tlast, prev, calls, scrapeCalls, frontVars, rank,
                   urlCheck, pace, tasks>>

\* a tools/call request is posted to /mcp and answered
HttpCall(req, order) ==
    /\ up
    /\ Len(bind) < MaxBindCalls
    /\ With(PostToolsCall(req.tool, HttpArgs(req), order, now, memoryCache, disk, env),
            LAMBDA out :
           /\ memoryCache' = out.mem
           /\ disk' = out.disk
           /\ bind' = Append(bind, BindCall("http", req, out)))
    /\ UNCHANGED <<now, up, inst, nextSweep, last, written, ops>>
    /\ UNCHANGED <<fpIn, fpOut, env, tlast, prev, calls, scrapeCalls, frontVars, rank,
                   urlCheck, pace, tasks>>

NextBind ==
    \/ \E req \in BindRequests : \E order \in Orders(BindAwaited("stdio", req)) :
         StdioCall(req, order)
    \/ \E req \in BindRequests : \E order \in Orders(BindAwaited("http", req)) :
         HttpCall(req, order)

SpecBind == InitBind /\ [][NextBind]_vars

\* the messages a binding answers an internal error of the tool with
FixedMessages(binding, tool) ==
    IF binding = "stdio" THEN {GenericMessage(tool)} ELSE {InternalErrorMessage(tool)}

\* C28: a tool call that failed with an internal error is answered, on
\* either binding, with a fixed message that depends on nothing but the tool:
\* the message of the internal error is not in the answer, which has no
\* other member than code and message.
InternalErrorsHidden ==
    \A i \in 1..Len(bind) :
        bind[i].internal # <<>> =>
            /\ bind[i].error # <<>>
            /\ DOMAIN bind[i].error[1] = {"code", "message"}
            /\ bind[i].error[1].message \in FixedMessages(bind[i].binding, bind[i].req.tool)
            /\ bind[i].error[1].message # bind[i].internal[1].message

\* a tool threw on each of the bindings
ToolThrewOnBoth ==
    \E i, j \in 1..Len(bind) :
        /\ bind[i].binding = "stdio"
        /\ bind[j].binding = "http"
        /\ bind[i].handed # <<>>
        /\ bind[j].handed # <<>>
        /\ bind[i].internal # <<>>
        /\ bind[j].internal # <<>>

\* the properties of a params object, whatever their order
Properties(params) == {params[i] : i \in 1..Len(params)}

\* the cache key the tool derives from the params it was handed
KeyOf(call) ==
    generateCacheKey(CASE call.req.tool = "search_documentation" -> "search"
                       [] call.req.tool = "get_api_reference" -> "api_ref"
                       [] call.req.tool = "find_examples" -> "examples"
                       [] call.req.tool = "get_migration_guide" -> "migration",
                     call.handed[1])

\* calls i and j carry the same request, one on each binding, and both
\* bindings called the tool
SameOnBoth(i, j) ==
    /\ bind[i].binding = "stdio"
    /\ bind[j].binding = "http"
    /\ bind[i].req = bind[j].req
    /\ bind[i].handed # <<>>
    /\ bind[j].handed # <<>>

\* C29: the two bindings hand the tool the same parameters for the same
\* request, so that the cache key and the result are the same on either.
BindingsAgree ==
    \A i, j \in 1..Len(bind) :
        SameOnBoth(i, j) =>
            /\ Properties(bind[i].handed[1]) = Properties(bind[j].handed[1])
            /\ KeyOf(bind[i]) = KeyOf(bind[j])
            /\ bind[i].result = bind[j].result

\* the bindings agree on a get_api_reference request without a version
ApiReferenceBindingsAgree ==
    \A i, j \in 1..Len(bind) :
        (/\ SameOnBoth(i, j)
         /\ bind[i].req.tool = "get_api_reference"
         /\ Prop(bind[i].req.args, "version") = Undefined) =>
            /\ Properties(bind[i].handed[1]) = Properties(bind[j].handed[1])
            /\ KeyOf(bind[i]) = KeyOf(bind[j])
            /\ bind[i].result = bind[j].result

(***************************************************************************)
(* The four tools over time and over restarts of the process.              *)
(***************************************************************************)
\* the number of half hours the clock of this specification advances
MaxTtlTicks == 5

\* the ttl each tool passes to cache.set, in seconds
OperationTTL(tool) ==
    CASE tool = "search_documentation" -> 1800
      [] tool = "get_api_reference" -> 3600
      [] tool = "find_examples" -> 1800
      [] tool = "get_migration_guide" -> 7200

\* the clock advances; a due cleanup timer fires first
LongTick ==
    /\ now < MaxTtlTicks * TickMs
    /\ ~(up /\ HasFileStorage /\ now >= nextSweep)
    /\ now' = now + TickMs
    /\ UNCHANGED <<up, inst, memoryCache, disk, nextSweep, last, written, ops>>
    /\ UNCHANGED nonCacheVars

InitTtl ==
    /\ CacheInit
    /\ fpIn = <<>>
    /\ fpOut = <<>>
    /\ env = AllUp
    /\ ToolsIdle

NextTtl ==
    \/ \E params \in ApiParams : GetApiReference(params, {})
    \/ \E params \in {p \in SearchParams : Truthy(Prop(p, "sources"))} :
         \E order \in Orders(Len(SearchSources(params))) : Search(params, order, {})
    \/ \E params \in ExampleParams :
         \E order \in Orders(Len(SearchSources(params))) : FindExamples(params, order, {})
    \/ \E params \in MigrationParams : GetMigrationGuide(params, {})
    \/ LongTick
    \/ Sweep({})
    \/ MemCheck
    \/ Kill
    \/ Start

SpecTtl == InitTtl /\ [][NextTtl]_vars

\* the last call repeats the call before it, which scraped and returned a
\* result
RepeatsStoredCall ==
    /\ prev # <<>>
    /\ tlast # <<>>
    /\ tlast[1].tool = prev[1].tool
    /\ tlast[1].params = prev[1].params
    /\ ~prev[1].threw
    /\ prev[1].result # <<>>
    /\ ~prev[1].cached

\* C30: a call that repeats a call whose result was stored is served from
\* the cache while the tool's own ttl (1800, 3600, 1800, 7200 s) has not
\* elapsed since the first call, and scrapes again once it has.
ServedForOwnTtl ==
    RepeatsStoredCall =>
        IF tlast[1].at - prev[1].at <= OperationTTL(tlast[1].tool) * 1000
        THEN tlast[1].cached /\ tlast[1].scrapes = {}
        ELSE ~tlast[1].cached /\ tlast[1].scrapes # {}

\* the same, for two calls made to the same process
ServedForOwnTtlInProcess ==
    (RepeatsStoredCall /\ tlast[1].inst = prev[1].inst) =>
        IF tlast[1].at - prev[1].at <= OperationTTL(tlast[1].tool) * 1000
        THEN tlast[1].cached /\ tlast[1].scrapes = {}
        ELSE ~tlast[1].cached /\ tlast[1].scrapes # {}

\* a migration guide was served from the cache more than an hour after it
\* was scraped, and one was scraped again after two hours
MigrationServedPastDefault ==
    /\ RepeatsStoredCall
    /\ tlast[1].tool = "get_migration_guide"
    /\ tlast[1].at - prev[1].at > DefaultTTL * 1000
    /\ tlast[1].cached
(***************************************************************************)
(* The filter of the search and the scoring of special characters.         *)
(***************************************************************************)
\* the ranking has returned a list
Ranked == rank # <<>> /\ rank.out # <<>> /\ ~rank.out[1].threw

\* C31: an entry is in the result set of a search, before the truncation to the
\* limit, exactly when every whitespace-separated term of the query occurs in
\* its title or its content, whatever the case of the letters, and its type is
\* the requested one when a type is requested.
FilterIsConjunctive ==
    Ranked =>
        /\ \A e \in RankEntries :
               e \in Range(rank.out[1].filtered) <=>
                   (e \in Range(rank.entries) /\ PassesFilter(e, rank.query, rank.type))
        /\ Len(rank.out[1].filtered) =
               Cardinality({i \in 1..Len(rank.entries) :
                               PassesFilter(rank.entries[i], rank.query, rank.type)})

\* a search for two terms with a type that kept one entry and dropped another
\* that has only one of the terms
KeptOneDroppedOne ==
    /\ Ranked
    /\ Len(SplitWs(rank.query, <<>>)) = 2
    /\ Truthy(rank.type)
    /\ Len(rank.entries) = 2
    /\ Len(rank.out[1].filtered) = 1
    /\ \E i \in 1..2 :
           /\ rank.entries[i] \notin Range(rank.out[1].filtered)
           /\ TypeChars[rank.entries[i].type] = rank.type.s
           /\ Includes(ToLower(rank.entries[i].title), <<"a">>)

\* C39: the search completes for every query that is not empty, the queries
\* with characters a regular expression reads as syntax included: the scoring
\* never fails.
ScoringNeverFails ==
    rank # <<>> /\ rank.out # <<>> /\ rank.query # <<>> => ~rank.out[1].threw

\* the scoring of a query of letters, digits, dots and quantified characters
\* does not fail
PlainScoringNeverFails ==
    rank # <<>> /\ rank.out # <<>>
        /\ (\A i \in 1..Len(rank.query) : rank.query[i] \notin {"(", "[", "+"})
        => ~rank.out[1].threw

\* a search for "f(" over an entry titled "f(x)" failed
OpenGroupFailed ==
    /\ rank # <<>> /\ rank.out # <<>>
    /\ rank.query = <<"f", "(">>
    /\ rank.out[1].threw
(***************************************************************************)
(* The selection of get_api_reference among the scraped entries.           *)
(***************************************************************************)
\* the entries findBestMatch is tried on, by their titles
MatchEntries ==
    {createEntry(title, <<>>, "api", "electron") :
        title \in {<<"i", "p", "c">>, <<"M", "a", "i", "n">>, <<"i", "p", "c", "-", "m", "a", "i", "n">>, <<"A", "p", "p">>, <<"x">>}}

\* the API names looked up: with each of the three separators, with a digit,
\* and without a separator
MatchNames == {<<"i", "p", "c", "-", "m", "a", "i", "n">>, <<"i", "p", "c", ".", "m", "a", "i", "n">>, <<"i", "p", "c", "_", "m", "a", "i", "n">>, <<"a", "p", "p">>, <<"I", "P", "C">>, <<"p", "2", "p">>, <<"n", "e", "t">>}

\* entries and an API name
InitMatch ==
    /\ CacheInit
    /\ fpIn = <<>>
    /\ fpOut = <<>>
    /\ env = <<>>
    /\ tlast = <<>>
    /\ prev = <<>>
    /\ calls = 0
    /\ scrapeCalls = <<>>
    /\ streams = <<>>
    /\ activeTransports = <<>>
    /\ posts = <<>>
    /\ stopping = FALSE
    /\ closing = <<>>
    /\ urlCheck = <<>>
    /\ pace = <<>>
    /\ bind = <<>>
    /\ tasks = <<>>
    /\ rank \in [entries : UNION {[1..n -> MatchEntries] : n \in 0..MaxEntries},
                 apiName : MatchNames,
                 out : {<<>>}]

\* findBestMatch applied to the entries a scrape returned; best is << >> for null
Match ==
    /\ rank.out = <<>>
    /\ rank' = [rank EXCEPT !.out = <<[best |-> findBestMatch(rank.entries, rank.apiName)]>>]
    /\ UNCHANGED <<now, up, inst, memoryCache, disk, nextSweep, last, written, ops>>
    /\ UNCHANGED <<fpIn, fpOut, env, tlast, prev, calls, scrapeCalls, frontVars, urlCheck, pace, bind, tasks>>

NextMatch == Match

SpecMatch == InitMatch /\ [][NextMatch]_vars

\* the entry the priority order selects when the name is cut into tokens at the
\* given separators: a title equal to the name, else a title containing it,
\* else a title containing a token, else the first entry; << >> for null
ByPriority(entries, apiName, separators) ==
    LET name == ToLower(apiName)
        tokens == SplitClass(name, separators, <<>>)
        equal == SelectSeq(entries, LAMBDA e : ToLower(e.title) = name)
        containing == SelectSeq(entries, LAMBDA e : Includes(ToLower(e.title), name))
        withToken == SelectSeq(entries, LAMBDA e : \E i \in 1..Len(tokens) :
                                                      Includes(ToLower(e.title), tokens[i]))
    IN  IF equal # <<>> THEN <<equal[1]>>
        ELSE IF containing # <<>> THEN <<containing[1]>>
        ELSE IF withToken # <<>> THEN <<withToken[1]>>
        ELSE IF entries # <<>> THEN <<entries[1]>>
        ELSE <<>>

\* C32: get_api_reference selects among the scraped entries by strict priority:
\* the first entry whose title equals the API name whatever the case, else the
\* first whose title contains it, else the first whose title contains a token of
\* the name cut at '.', '-' or '_', else the first entry; null only when there
\* are no entries.
BestMatchPriority ==
    rank # <<>> /\ rank.out # <<>> =>
        /\ rank.out[1].best = ByPriority(rank.entries, rank.apiName, {".", "-", "_"})
        /\ rank.out[1].best = <<>> <=> rank.entries = <<>>

\* the priority order holds for the names that have neither a hyphen nor a
\* character between '.' and '_' other than the dot and the underscore, and
\* null is returned only when there are no entries
BestMatchPriorityOfPlainNames ==
    rank # <<>> /\ rank.out # <<>> =>
        /\ (\A i \in 1..Len(rank.apiName) :
                rank.apiName[i] \notin ({"-"} \cup (DotToUnderscore \ {".", "_"})))
               => rank.out[1].best = ByPriority(rank.entries, rank.apiName, {".", "-", "_"})
        /\ rank.out[1].best = <<>> <=> rank.entries = <<>>

\* the lookup of "ipc-main" passed over an entry titled "ipc" and returned the
\* first entry, which has no token of the name
HyphenNotCut ==
    /\ rank # <<>> /\ rank.out # <<>>
    /\ rank.apiName = <<"i", "p", "c", "-", "m", "a", "i", "n">>
    /\ Len(rank.entries) = 2
    /\ rank.entries[1].title = <<"x">>
    /\ rank.entries[2].title = <<"i", "p", "c">>
    /\ rank.out[1].best = <<rank.entries[1]>>
(***************************************************************************)
(* The filtering and the ranking of find_examples.                         *)
(***************************************************************************)
\* the entries the scrapes of find_examples return: examples and API pages,
\* from an official source and from GitHub, in a language spelled in either
\* case, with and without a description
ScrapedForExamples ==
    {[title |-> title, content |-> content, type |-> type, source |-> source,
      rep |-> "Date", language |-> language, description |-> description] :
        title \in {<<"a", "p", "p">>, <<"x">>},
        content \in {<<>>, <<"a", "p", "p">>},
        type \in {"example", "api"},
        source \in {"electron", "github"},
        language \in {<<"j", "a", "v", "a", "s", "c", "r", "i", "p", "t">>, <<"J", "S", "X">>},
        description \in {<<>>, <<"d">>}}

\* scraped entries, a topic, a language filter and a limit
InitExamples ==
    /\ CacheInit
    /\ fpIn = <<>>
    /\ fpOut = <<>>
    /\ env = <<>>
    /\ tlast = <<>>
    /\ prev = <<>>
    /\ calls = 0
    /\ scrapeCalls = <<>>
    /\ streams = <<>>
    /\ activeTransports = <<>>
    /\ posts = <<>>
    /\ stopping = FALSE
    /\ closing = <<>>
    /\ urlCheck = <<>>
    /\ pace = <<>>
    /\ bind = <<>>
    /\ tasks = <<>>
    /\ rank \in [entries : UNION {[1..n -> ScrapedForExamples] : n \in 0..MaxEntries},
                 topic : {<<"a", "p", "p">>, <<"a", "p", "p", " ", "x">>},
                 language : {Undefined, Str(<<"j", "s", "x">>)},
                 limit : {NumOf(1), NumOf(DefaultExamplesLimit)},
                 out : {<<>>}]

\* the part of findExamples that follows a scrape: the filter by type, the
\* filter by language, rankExamples and the slice to the limit
RankExamples ==
    /\ rank.out = <<>>
    /\ With(SelectSeq(rank.entries, LAMBDA entry : entry.type = "example"), LAMBDA allExamples :
       With(FilterByLanguage(allExamples, rank.language), LAMBDA filteredExamples :
       With(rankExamples(filteredExamples, rank.topic), LAMBDA rankedExamples :
           rank' = [rank EXCEPT !.out = <<SliceTo(rankedExamples, rank.limit)>>])))
    /\ UNCHANGED <<now, up, inst, memoryCache, disk, nextSweep, last, written, ops>>
    /\ UNCHANGED <<fpIn, fpOut, env, tlast, prev, calls, scrapeCalls, frontVars, urlCheck, pace, bind, tasks>>

NextExamples == RankExamples

SpecExamples == InitExamples /\ [][NextExamples]_vars

\* the entries find_examples may return: the examples, in the language asked
\* for when one is asked for
Eligible(entry, language) ==
    /\ entry.type = "example"
    /\ Truthy(language) => ToLower(entry.language) = ToLower(language.s)

\* the points of an example for a topic: 50 for a title that contains the
\* topic, 20 for each term in the title, 5 for each term in the content, 10 for
\* a description, 15 for a source other than GitHub
Points(entry, topic) ==
    LET terms == SplitWs(ToLower(topic), <<>>)
    IN  (IF Includes(ToLower(entry.title), ToLower(topic)) THEN 50 ELSE 0)
        + 20 * Cardinality({i \in 1..Len(terms) : Includes(ToLower(entry.title), terms[i])})
        + 5 * Cardinality({i \in 1..Len(terms) : Includes(ToLower(entry.content), terms[i])})
        + (IF entry.description # <<>> THEN 10 ELSE 0)
        + (IF entry.source # "github" THEN 15 ELSE 0)

\* C33: find_examples returns only entries of kind example, with a language only
\* the entries whose language equals it whatever the case, in the order of
\* non-increasing score, truncated to the limit: the best of the eligible
\* entries and no more than limit of them.
ExamplesContract ==
    rank # <<>> /\ rank.out # <<>> =>
        LET returned == rank.out[1]
            eligible == {i \in 1..Len(rank.entries) : Eligible(rank.entries[i], rank.language)}
        IN  /\ \A i \in 1..Len(returned) : Eligible(returned[i], rank.language)
            /\ \A i \in 1..(Len(returned) - 1) :
                   Points(returned[i], rank.topic) >= Points(returned[i + 1], rank.topic)
            /\ Len(returned) = Min(rank.limit.n, Cardinality(eligible))
            /\ \A e \in ScrapedForExamples :
                   Cardinality({i \in 1..Len(returned) : returned[i] = e})
                       <= Cardinality({i \in eligible : rank.entries[i] = e})
            /\ \A i \in eligible :
                   rank.entries[i] \notin Range(returned) =>
                       \A j \in 1..Len(returned) :
                           Points(returned[j], rank.topic) >= Points(rank.entries[i], rank.topic)

\* two examples were scraped with a language asked for and a limit of one: the
\* one from the official source was returned, the one from GitHub was not
BetterExampleReturned ==
    /\ rank # <<>> /\ rank.out # <<>>
    /\ Truthy(rank.language)
    /\ rank.limit.n = 1
    /\ Len(rank.entries) = 2
    /\ \A i \in 1..2 : Eligible(rank.entries[i], rank.language)
    /\ rank.entries[1].source = "github"
    /\ rank.entries[2] = [rank.entries[1] EXCEPT !.source = "electron"]
    /\ rank.out[1] = <<rank.entries[2]>>
(***************************************************************************)
(* The names ElectronScraper.scrapeApi fetches one after the other.        *)
(***************************************************************************)
\* the i-th direct call is a settled lookup of an API name at the Electron
\* scraper
SettledLookup(i) ==
    /\ scrapeCalls[i].result # <<>>
    /\ scrapeCalls[i].source = "electron"
    /\ scrapeCalls[i].params.t = "object"
    /\ IsString(Prop(scrapeCalls[i].params.p, "apiName"))
    /\ Truthy(Prop(scrapeCalls[i].params.p, "apiName"))

\* the names of the pages the i-th call requested, in the order of the requests
NamesFetched(i) ==
    [k \in 1..Len(scrapeCalls[i].result[1].fetched) |->
        scrapeCalls[i].result[1].fetched[k].path.name]

\* C34: when the fetch for the lower-cased API name fails, the next fetch of the
\* scraper is for the name as the caller wrote it, and the lookup has failed
\* only after both fetches failed.
AlternateNameIsNext ==
    \A i \in 1..Len(scrapeCalls) :
        SettledLookup(i) =>
            LET apiName == Prop(scrapeCalls[i].params.p, "apiName").s
                names == NamesFetched(i)
            IN  /\ Len(names) >= 2 => names[1] = ToLower(apiName) /\ names[2] = apiName
                /\ (scrapeCalls[i].result[1].entries = <<>> /\ names # <<>>) =>
                       {ToLower(apiName), apiName} \subseteq Range(names)

\* the lower-cased name is fetched first, the name as written is fetched before
\* the lookup gives up, and a lookup that gave up resolves with no entries and
\* no error
LiteralNameTriedBeforeGivingUp ==
    \A i \in 1..Len(scrapeCalls) :
        SettledLookup(i) =>
            LET apiName == Prop(scrapeCalls[i].params.p, "apiName").s
                names == NamesFetched(i)
            IN  /\ names # <<>> => names[1] = ToLower(apiName)
                /\ (scrapeCalls[i].result[1].entries = <<>> /\ names # <<>>) =>
                       /\ names[Len(names)] = apiName
                       /\ {ToLower(apiName), apiName} \subseteq Range(names)

\* a lookup of "App" whose first fetch failed fetched "app" a second time
LowerCasedNameFetchedTwice ==
    \E i \in 1..Len(scrapeCalls) :
        /\ SettledLookup(i)
        /\ Prop(scrapeCalls[i].params.p, "apiName").s = <<"A", "p", "p">>
        /\ NamesFetched(i) = <<<<"a", "p", "p">>, <<"a", "p", "p">>, <<"A", "p", "p">>>>
(***************************************************************************)
(* The sessions at the end of the signal handler.                          *)
(***************************************************************************)
\* the signal handler has run to its end
HandlerFinished == stopping /\ ~up

MaxTasks == 2
MaxRaceTicks == 4

\* the key the operations of the races use, and its file
RaceKey == <<"a">>
RaceFile == getFilename(RaceKey).name

\* an operation suspended at an await: pc names the call it is about to make,
\* seen is the entry a removal read and decided on, entry the one a set writes
Task(op, pc, seen, entry) ==
    [op |-> op, pc |-> pc, seen |-> seen, entry |-> entry, at |-> now,
     removedFresh |-> FALSE, overtaken |-> FALSE]

\* the tasks without the i-th, which has finished
Finished(i) == [j \in 1..(Len(tasks) - 1) |-> IF j < i THEN tasks[j] ELSE tasks[j + 1]]

\* the number of tasks under way
UnderWay == Cardinality({i \in 1..Len(tasks) : tasks[i].pc # "done"})

\* the clock advances; a due cleanup timer fires first
RaceTick ==
    /\ now < MaxRaceTicks * TickMs
    /\ now < nextSweep
    /\ now' = now + TickMs
    /\ UNCHANGED <<up, inst, memoryCache, disk, nextSweep, last, written, ops>>
    /\ UNCHANGED <<fpIn, fpOut, env, tlast, prev, calls, scrapeCalls, frontVars>>
    /\ UNCHANGED <<rank, urlCheck, pace, bind, tasks>>

\* cache.set(key, data) up to the await of fileStorage.set: the entry is made
\* and stored in the memory tier
RaceSet ==
    /\ UnderWay < MaxTasks
    /\ \A i \in 1..Len(tasks) : tasks[i].op # "set"
    /\ LET data == [v |-> "v1", born |-> now, life |-> DefaultTTL, rep |-> "Date"]
           entry == [data |-> data, timestamp |-> now, ttl |-> DefaultTTL]
       IN  /\ memoryCache' = NodeCacheSet(memoryCache, RaceKey, entry, DefaultTTL, now)
           /\ tasks' = Append(tasks, Task("set", "write", <<>>, <<entry>>))
    /\ UNCHANGED <<now, up, inst, disk, nextSweep, last, written, ops>>
    /\ UNCHANGED <<fpIn, fpOut, env, tlast, prev, calls, scrapeCalls, frontVars>>
    /\ UNCHANGED <<rank, urlCheck, pace, bind>>

\* fs.writeFile of a set completes; a removal that has read the file before
\* and has not unlinked it yet is overtaken
RaceWrite(i) ==
    /\ i \in 1..Len(tasks)
    /\ tasks[i].op = "set" /\ tasks[i].pc = "write"
    /\ disk' = FileStorageSet(disk, RaceKey, tasks[i].entry[1], {}).disk
    /\ tasks' = LET marked == [j \in 1..Len(tasks) |->
                                 IF tasks[j].pc = "unlink"
                                 THEN [tasks[j] EXCEPT !.overtaken = TRUE] ELSE tasks[j]]
                IN  [j \in 1..(Len(tasks) - 1) |-> IF j < i THEN marked[j] ELSE marked[j + 1]]
    /\ UNCHANGED <<now, up, inst, memoryCache, nextSweep, last, written, ops>>
    /\ UNCHANGED <<fpIn, fpOut, env, tlast, prev, calls, scrapeCalls, frontVars>>
    /\ UNCHANGED <<rank, urlCheck, pace, bind>>

\* cache.get(key) up to the await of fileStorage.get: a memory hit returns, an
\* expired memory entry is dropped
RaceGet ==
    /\ UnderWay < MaxTasks
    /\ \A i \in 1..Len(tasks) : tasks[i].op # "get" \/ tasks[i].pc = "done"
    /\ LET mr == NodeCacheGet(memoryCache, RaceKey, now)
           memHit == mr.found # <<>>
                     /\ ~isCacheExpired(mr.found[1].timestamp, mr.found[1].ttl, now)
       IN  /\ memoryCache' = IF mr.found # <<>> /\ ~memHit
                             THEN NodeCacheDel(mr.mem, RaceKey) ELSE mr.mem
           /\ ~memHit
           /\ tasks' = Append(tasks, Task("get", "read", <<>>, <<>>))
    /\ UNCHANGED <<now, up, inst, disk, nextSweep, last, written, ops>>
    /\ UNCHANGED <<fpIn, fpOut, env, tlast, prev, calls, scrapeCalls, frontVars>>
    /\ UNCHANGED <<rank, urlCheck, pace, bind>>

\* fs.readFile of a get completes: a fresh entry is restored to the memory tier
\* and returned, an expired one is to be deleted, and no file is a miss
RaceRead(i) ==
    /\ i \in 1..Len(tasks)
    /\ tasks[i].op = "get" /\ tasks[i].pc = "read"
    /\ LET fr == FileStorageGet(disk, RaceKey, {})
       IN  IF fr.found # <<>> /\ ~isCacheExpired(fr.found[1].timestamp, fr.found[1].ttl, now)
           THEN /\ memoryCache' = NodeCacheSet(memoryCache, RaceKey, fr.found[1],
                                               fr.found[1].ttl, now)
                /\ tasks' = Finished(i)
           ELSE IF fr.found # <<>>
           THEN /\ tasks' = [tasks EXCEPT ![i].pc = "unlink", ![i].seen = fr.found]
                /\ UNCHANGED memoryCache
           ELSE /\ tasks' = Finished(i)
                /\ UNCHANGED memoryCache
    /\ UNCHANGED <<now, up, inst, disk, nextSweep, last, written, ops>>
    /\ UNCHANGED <<fpIn, fpOut, env, tlast, prev, calls, scrapeCalls, frontVars>>
    /\ UNCHANGED <<rank, urlCheck, pace, bind>>

\* the setInterval callback: fileStorage.cleanup(this.defaultTTL) up to the
\* await of readdir
SweepStart ==
    /\ now >= nextSweep
    /\ UnderWay < MaxTasks
    /\ nextSweep' = nextSweep + CleanupIntervalMs
    /\ tasks' = Append(tasks, Task("sweep", "readdir", <<>>, <<>>))
    /\ UNCHANGED <<now, up, inst, memoryCache, disk, last, written, ops>>
    /\ UNCHANGED <<fpIn, fpOut, env, tlast, prev, calls, scrapeCalls, frontVars>>
    /\ UNCHANGED <<rank, urlCheck, pace, bind>>

\* fs.readdir of the sweep completes, and the sweep takes the time: without a
\* file it is done, else it reads the file
SweepReaddir(i) ==
    /\ i \in 1..Len(tasks)
    /\ tasks[i].op = "sweep" /\ tasks[i].pc = "readdir"
    /\ tasks' = IF RaceFile \in DOMAIN disk
                THEN [tasks EXCEPT ![i].pc = "read", ![i].at = now]
                ELSE Finished(i)
    /\ UNCHANGED <<now, up, inst, memoryCache, disk, nextSweep, last, written, ops>>
    /\ UNCHANGED <<fpIn, fpOut, env, tlast, prev, calls, scrapeCalls, frontVars>>
    /\ UNCHANGED <<rank, urlCheck, pace, bind>>

\* fs.readFile of the sweep completes: a file older than the ttl of the sweep
\* is to be unlinked, a younger one or a missing one is skipped
SweepRead(i) ==
    /\ i \in 1..Len(tasks)
    /\ tasks[i].op = "sweep" /\ tasks[i].pc = "read"
    /\ tasks' = IF RaceFile \in DOMAIN disk
                   /\ tasks[i].at - disk[RaceFile].timestamp > DefaultTTL * 1000
                THEN [tasks EXCEPT ![i].pc = "unlink", ![i].seen = <<disk[RaceFile]>>]
                ELSE Finished(i)
    /\ UNCHANGED <<now, up, inst, memoryCache, disk, nextSweep, last, written, ops>>
    /\ UNCHANGED <<fpIn, fpOut, env, tlast, prev, calls, scrapeCalls, frontVars>>
    /\ UNCHANGED <<rank, urlCheck, pace, bind>>

\* fs.unlink of a get or of the sweep completes: the file goes, whatever it
\* holds by now; the task is kept when what it removed had not expired
RaceUnlink(i) ==
    /\ i \in 1..Len(tasks)
    /\ tasks[i].pc = "unlink"
    /\ disk' = Unlink(disk, {RaceFile})
    /\ tasks' = IF RaceFile \in DOMAIN disk
                   /\ ~isCacheExpired(disk[RaceFile].timestamp, disk[RaceFile].ttl, now)
                THEN [tasks EXCEPT ![i].pc = "done", ![i].removedFresh = TRUE]
                ELSE Finished(i)
    /\ UNCHANGED <<now, up, inst, memoryCache, nextSweep, last, written, ops>>
    /\ UNCHANGED <<fpIn, fpOut, env, tlast, prev, calls, scrapeCalls, frontVars>>
    /\ UNCHANGED <<rank, urlCheck, pace, bind>>

NextRace ==
    \/ RaceTick
    \/ RaceSet
    \/ RaceGet
    \/ SweepStart
    \/ \E i \in 1..MaxTasks + 2 : RaceWrite(i)
    \/ \E i \in 1..MaxTasks + 2 : RaceRead(i)
    \/ \E i \in 1..MaxTasks + 2 : SweepReaddir(i)
    \/ \E i \in 1..MaxTasks + 2 : SweepRead(i)
    \/ \E i \in 1..MaxTasks + 2 : RaceUnlink(i)

SpecRace == InitCache /\ [][NextRace]_vars

\* C37: a fresh durable entry is never lost to a concurrent removal: under
\* every interleaving of set with the sweep or with the eviction inside a get,
\* no removal that decided on an older, expired entry deletes an unexpired
\* entry that a set has written since.
FreshEntryNeverRemoved ==
    \A i \in 1..Len(tasks) : ~tasks[i].removedFresh

\* a removal deletes an unexpired entry only when a write overtook it between
\* its read and its unlink
FreshEntryRemovedOnlyWhenOvertaken ==
    \A i \in 1..Len(tasks) : tasks[i].removedFresh => tasks[i].overtaken

\* the eviction of a get removed the file a later set had written, and the
\* memory tier still holds the entry
EvictionRemovedFreshFile ==
    \E i \in 1..Len(tasks) :
        /\ tasks[i].op = "get"
        /\ tasks[i].removedFresh
        /\ RaceFile \notin DOMAIN disk
        /\ RaceKey \in DOMAIN memoryCache

\* the sweep removed the file a later set had written
SweepRemovedFreshFile ==
    \E i \in 1..Len(tasks) : tasks[i].op = "sweep" /\ tasks[i].removedFresh
(***************************************************************************)
(* Searches under way at the same time, taken one await at a time: the     *)
(* lookup in the memory tier, the read of the file, the scrapes, the write *)
(* of the file.                                                            *)
(***************************************************************************)
\* the number of searches made
MaxFlights == 3

\* the i-th search is for the same cache key as the j-th
SameKey(i, j) == tasks[i].key = tasks[j].key

\* a search suspended at an await, or done; before = the searches for the same
\* key that had returned a scraped result when this one was called
Flight(params, key, pc, result, cached) ==
    [params |-> params, key |-> key, pc |-> pc, result |-> result, cached |-> cached,
     threw |-> FALSE, scraped |-> FALSE, entry |-> <<>>,
     before |-> {j \in 1..Len(tasks) :
                    tasks[j].key = key /\ tasks[j].pc = "done" /\ tasks[j].scraped}]

\* search(params) up to the await inside cache.get: a hit in the memory tier
\* returns, anything else goes on to the file
FlightStart(params) ==
    /\ Len(tasks) < MaxFlights
    /\ With(generateCacheKey("search", params), LAMBDA cacheKey :
       With(NodeCacheGet(memoryCache, cacheKey, now), LAMBDA mr :
           IF mr.found # <<>> /\ ~isCacheExpired(mr.found[1].timestamp, mr.found[1].ttl, now)
           THEN /\ memoryCache' = mr.mem
                /\ tasks' = Append(tasks, Flight(params, cacheKey, "done",
                                                 <<mr.found[1].data>>, TRUE))
           ELSE /\ memoryCache' = IF mr.found # <<>> THEN NodeCacheDel(mr.mem, cacheKey)
                                  ELSE mr.mem
                /\ tasks' = Append(tasks, Flight(params, cacheKey, "read", <<>>, FALSE))))
    /\ UNCHANGED <<now, up, inst, disk, nextSweep, last, written, ops>>
    /\ UNCHANGED <<fpIn, fpOut, env, tlast, prev, calls, scrapeCalls, frontVars>>
    /\ UNCHANGED <<rank, urlCheck, pace, bind>>

\* the file half of cache.get completes: a hit returns, a miss starts the
\* scrapes of the sources
FlightRead(i) ==
    /\ i \in 1..Len(tasks)
    /\ tasks[i].pc = "read"
    /\ With(DocCacheGetFile(memoryCache, disk, tasks[i].key, now, {}), LAMBDA c :
           /\ memoryCache' = c.mem
           /\ disk' = c.disk
           /\ tasks' = IF c.hit
                       THEN [tasks EXCEPT ![i].pc = "done", ![i].result = c.data,
                                          ![i].cached = TRUE]
                       ELSE [tasks EXCEPT ![i].pc = "scrape"])
    /\ UNCHANGED <<now, up, inst, nextSweep, last, written, ops>>
    /\ UNCHANGED <<fpIn, fpOut, env, tlast, prev, calls, scrapeCalls, frontVars>>
    /\ UNCHANGED <<rank, urlCheck, pace, bind>>

\* Promise.all of the scrapes settles, in the given order: the entries are
\* filtered and ranked, and cache.set stores the result in the memory tier
\* before it awaits the write of the file
FlightScraped(i, order) ==
    /\ i \in 1..Len(tasks)
    /\ tasks[i].pc = "scrape"
    /\ With(tasks[i].params, LAMBDA params :
       With(IF Truthy(Prop(params, "sources")) THEN Prop(params, "sources").a
            ELSE ScraperKeys(env), LAMBDA sources :
           /\ order \in Orders(Len(sources))
           /\ With(ScrapeSources(sources, order, params, now, env), LAMBDA all :
                  IF ScoringThrows(all.entries, Prop(params, "query").s, Prop(params, "type"))
                  THEN /\ tasks' = [tasks EXCEPT ![i].pc = "done", ![i].threw = TRUE,
                                                 ![i].scraped = TRUE]
                       /\ UNCHANGED memoryCache
                  ELSE
              With(filterAndRankEntries(all.entries, Prop(params, "query").s,
                                        Prop(params, "type")), LAMBDA filteredEntries :
              With([entries |-> SliceTo(filteredEntries, Prop(params, "limit")),
                    totalCount |-> Len(filteredEntries),
                    query |-> Prop(params, "query").s,
                    sources |-> sources,
                    rep |-> "Date"], LAMBDA result :
              With([data |-> result, timestamp |-> now, ttl |-> 1800], LAMBDA entry :
                  /\ memoryCache' = NodeCacheSet(memoryCache, tasks[i].key, entry, 1800, now)
                  /\ tasks' = [tasks EXCEPT ![i].pc = "write", ![i].result = <<result>>,
                                            ![i].scraped = TRUE, ![i].entry = <<entry>>]))))))
    /\ UNCHANGED <<now, up, inst, disk, nextSweep, last, written, ops>>
    /\ UNCHANGED <<fpIn, fpOut, env, tlast, prev, calls, scrapeCalls, frontVars>>
    /\ UNCHANGED <<rank, urlCheck, pace, bind>>

\* the write of the file completes, and search returns its result
FlightWrite(i) ==
    /\ i \in 1..Len(tasks)
    /\ tasks[i].pc = "write"
    /\ disk' = FileStorageSet(disk, tasks[i].key, tasks[i].entry[1], {}).disk
    /\ tasks' = [tasks EXCEPT ![i].pc = "done"]
    /\ UNCHANGED <<now, up, inst, memoryCache, nextSweep, last, written, ops>>
    /\ UNCHANGED <<fpIn, fpOut, env, tlast, prev, calls, scrapeCalls, frontVars>>
    /\ UNCHANGED <<rank, urlCheck, pace, bind>>

NextFlight ==
    \/ \E params \in SearchParams : FlightStart(params)
    \/ \E i \in 1..MaxFlights : FlightRead(i)
    \/ \E i \in 1..MaxFlights : \E order \in Orders(3) \cup Orders(4) : FlightScraped(i, order)
    \/ \E i \in 1..MaxFlights : FlightWrite(i)

SpecFlight == InitHttp /\ [][NextFlight]_vars

\* the searches i and j for one key were under way together and both scraped
BothScraped(i, j) ==
    /\ i # j
    /\ SameKey(i, j)
    /\ tasks[i].scraped /\ tasks[j].scraped
    /\ i \notin tasks[j].before /\ j \notin tasks[i].before

\* the results are the same search result, read from the memory tier or from
\* the file, where the dates have become strings
SameResult(a, b) ==
    /\ a # <<>> /\ b # <<>>
    /\ JsonRoundTrip(a[1]) = JsonRoundTrip(b[1])

MaxAnswered == 1

\* POST i has passed the session lookup and has not been answered
Accepted(i) == i \in 1..Len(posts) /\ posts[i].stage \in {"reading", "tool"}

\* POST i has been answered with exactly one JSON-RPC response
AnsweredOnce(i) ==
    /\ i \in 1..Len(posts)
    /\ posts[i].stage = "done"
    /\ posts[i].status = 200
    /\ Len(posts[i].response) = 1

\* the bodies of the POSTs followed: one for every path of the 'end' listener.
\* The searches with a query are left to SpecHttp; the other three tools take
\* the paths of a tool that returns and of a tool that throws.
AnswerBodies ==
    {body \in Bodies :
        (body.kind = "json" /\ body.v # Null) =>
            ~IsString(Field(Field(Field(body.v, "params"), "arguments"), "query"))}

\* a POST for a known session arrives
PostAccepted(sessionId, body) ==
    /\ Len(posts) < MaxAnswered
    /\ sessionLookup(sessionId, activeTransports) = 0
    /\ PostArrives(sessionId, body)

\* the 'end' event of POST i, once the client has sent the body
BodyEnds(i) == i \in 1..Len(posts) /\ PostEnd(i)

\* the tool POST i awaits settles, its scrapes in some order
ToolReturns(i) ==
    /\ i \in 1..Len(posts)
    /\ \E order \in Orders(IF posts[i].stage = "tool"
                           THEN Awaited(posts[i].pending[1].tool, posts[i].pending[1].params)
                           ELSE 0) :
         ToolSettles(i, order)

NextAnswer ==
    \/ OpenStream
    \/ \E i \in 1..Len(streams) : CloseStream(i)
    \/ Shutdown
    \/ CloseNext
    \/ Exit
    \/ \E sessionId \in SessionIds : \E body \in AnswerBodies : PostAccepted(sessionId, body)
    \/ \E i \in 1..MaxAnswered : BodyEnds(i)
    \/ \E i \in 1..MaxAnswered : ToolReturns(i)

SpecAnswer == InitHttp /\ [][NextAnswer]_vars

\* POST i awaits its tool in a running process
AwaitsTool(i) == up /\ i \in 1..Len(posts) /\ posts[i].stage = "tool"

\* the client sends the whole body, so the 'end' event fires, and every tool
\* execution terminates: no POST awaits its tool for ever while the process
\* runs; the signals and the clients are under no obligation
FairAnswer ==
    /\ SpecAnswer
    /\ \A i \in 1..MaxAnswered : WF_vars(BodyEnds(i)) /\ []<>~AwaitsTool(i)

\* C38: every POST accepted for a known session is eventually answered with
\* exactly one response, provided each tool execution terminates.
EveryPostAnswered ==
    \A i \in 1..MaxAnswered : Accepted(i) ~> AnsweredOnce(i)

\* every accepted POST is eventually answered with exactly one response, or
\* the process has exited with the POST unanswered
AnsweredUnlessExited ==
    \A i \in 1..MaxAnswered : Accepted(i) ~> (AnsweredOnce(i) \/ ~up)

\* a POST that is done was answered once when it had been accepted, and was
\* refused with a status and no JSON-RPC response otherwise
OneResponseOnEveryPath ==
    \A i \in 1..Len(posts) :
        posts[i].stage = "done" =>
            \/ posts[i].status = 200 /\ Len(posts[i].response) = 1
            \/ posts[i].status \in {400, 404} /\ posts[i].response = <<>>

\* the process has exited while an accepted POST awaited its tool
ExitedBeforeAnswer ==
    /\ ~up
    /\ \E i \in 1..Len(posts) : posts[i].stage = "tool"

\* a POST whose tool threw has been answered with the internal error
AnsweredAfterToolFailure ==
    \E i \in 1..Len(posts) :
        /\ AnsweredOnce(i)
        /\ posts[i].invoked # ""
        /\ posts[i].response[1].error # <<>>
        /\ posts[i].response[1].error[1].code = -32603

====
